---- MODULE Spec2Model ----
(***************************************************************************)
(* JsonEditor (src/src/json_editor/editor.rs): the text of a JSON          *)
(* document, its parsed value, the validation message and the undo / redo  *)
(* history, with the path-addressed mutations update / delete / add /      *)
(* rename.                                                                 *)
(*                                                                         *)
(* A Rust String is a sequence of one-character strings; a serde_json      *)
(* Value is a record; serde_json::from_str, to_string and to_string_pretty *)
(* are the operators Parse, to_string and to_string_pretty below.  The     *)
(* Map of an Object is serde_json's default one (a BTreeMap: keys kept in  *)
(* ascending order).                                                       *)
(***************************************************************************)
EXTENDS Integers, Sequences, FiniteSets, TLC

----------------------------------------------------------------------------
(* Characters                                                              *)

QUOTE == "\""
BSLASH == "\\"
NL == "\n"
TAB == "\t"
EOF == "<eof>"

\* The combining acute accent U+0301, and the letters of the model that
\* have a precomposed form with it (a character beyond ASCII is named by
\* its code point).
ACUTE == "U+0301"

Composed(c) ==
    CASE c = "E" -> "U+00C9"
      [] c = "N" -> "U+0143"
      [] c = "a" -> "U+00E1"
      [] c = "c" -> "U+0107"
      [] c = "e" -> "U+00E9"
      [] c = "i" -> "U+00ED"
      [] c = "k" -> "U+1E31"
      [] c = "l" -> "U+013A"
      [] c = "n" -> "U+0144"
      [] c = "r" -> "U+0155"
      [] c = "s" -> "U+015B"
      [] c = "u" -> "U+00FA"
      [] c = "y" -> "U+00FD"
      [] OTHER -> ""

\* The characters of the model, in ascending code point order.
Alphabet ==
    << TAB, NL, " ", QUOTE, "+", ",", "-", ".", "/",
       "0", "1", "2", "3", "4", "5", "6", "7", "8", "9", ":",
       "E", "N", "[", BSLASH, "]",
       "a", "b", "c", "e", "f", "i", "k", "l", "n", "r", "s", "t", "u", "v", "x", "y",
       "{", "}",
       "U+00C9", "U+00E1", "U+00E9", "U+00ED", "U+00FA", "U+00FD", "U+0107",
       "U+013A", "U+0143", "U+0144", "U+0155", "U+015B", ACUTE, "U+1E31" >>

CharRank(c) == CHOOSE i \in 1..Len(Alphabet) : Alphabet[i] = c

Digits == << "0", "1", "2", "3", "4", "5", "6", "7", "8", "9" >>

IsDigit(c) == \E i \in 1..10 : Digits[i] = c

DigitVal(c) == (CHOOSE i \in 1..10 : Digits[i] = c) - 1

IsWs(c) == c \in {" ", NL, TAB}

At(s, i) == IF i >= 1 /\ i <= Len(s) THEN s[i] ELSE EOF

RECURSIVE Pow10(_)
Pow10(k) == IF k = 0 THEN 1 ELSE 10 * Pow10(k - 1)

\* Byte-wise (lexicographic) order of two strings: a < b.
RECURSIVE StrLess(_, _)
StrLess(a, b) ==
    IF b = <<>> THEN FALSE
    ELSE IF a = <<>> THEN TRUE
    ELSE IF Head(a) = Head(b) THEN StrLess(Tail(a), Tail(b))
    ELSE CharRank(Head(a)) < CharRank(Head(b))

----------------------------------------------------------------------------
(* serde_json::Value                                                       *)

\* A Number: integer (f = FALSE, e = 0) or float (f = TRUE) of value
\* (neg ? -1 : 1) * m / 10^e, with m not a multiple of 10 unless e = 0.
NoNum == [f |-> FALSE, neg |-> FALSE, m |-> 0, e |-> 0]

Blank == [t |-> "null", b |-> FALSE, num |-> NoNum, s |-> <<>>, kids |-> <<>>]

JNull == Blank
JBool(x) == [Blank EXCEPT !.t = "bool", !.b = x]
JNumber(n) == [Blank EXCEPT !.t = "number", !.num = n]
JString(x) == [Blank EXCEPT !.t = "string", !.s = x]
\* kids: the elements of an Array (k empty) or the entries of an Object.
JArray(items) == [Blank EXCEPT !.t = "array", !.kids = items]
JObject(entries) == [Blank EXCEPT !.t = "object", !.kids = entries]

Entry(k, v) == [k |-> k, v |-> v]

JInt(i) == JNumber([f |-> FALSE, neg |-> i < 0, m |-> IF i < 0 THEN -i ELSE i, e |-> 0])

RECURSIVE NormFloat(_)
NormFloat(n) ==
    IF n.e > 0 /\ n.m % 10 = 0
    THEN NormFloat([n EXCEPT !.m = n.m \div 10, !.e = n.e - 1])
    ELSE n

JFloat(neg, m, e) == JNumber(NormFloat([f |-> TRUE, neg |-> neg, m |-> m, e |-> e]))

\* Option<T>: None is <<>>, Some(x) is <<x>>.
None == <<>>
Some(x) == <<x>>
IsSome(o) == o # <<>>
Unwrap(o) == o[1]

----------------------------------------------------------------------------
(* Map<String, Value> (BTreeMap): entries in ascending key order           *)

MapIndex(kids, key) ==
    IF \E i \in 1..Len(kids) : kids[i].k = key
    THEN CHOOSE i \in 1..Len(kids) : kids[i].k = key
    ELSE 0

MapContains(kids, key) == MapIndex(kids, key) # 0

\* A slip: the last element is removed, whatever the index.
RemoveLast(seq, i) == SubSeq(seq, 1, Len(seq) - 1)

\* Vec::remove(i - 1)
RemoveAt(seq, i) == SubSeq(seq, 1, i - 1) \o SubSeq(seq, i + 1, Len(seq))

\* Map::insert: replaces the value of an existing key, else adds the key.
MapInsertSlot(kids, key) ==
    Cardinality({i \in 1..Len(kids) : StrLess(kids[i].k, key)})

MapInsert(kids, key, v) ==
    LET i == MapIndex(kids, key) IN
    IF i # 0 THEN [kids EXCEPT ![i] = Entry(key, v)]
    ELSE LET n == MapInsertSlot(kids, key) IN
         SubSeq(kids, 1, n) \o << Entry(key, v) >> \o SubSeq(kids, n + 1, Len(kids))

\* Map::remove
MapRemove(kids, key) ==
    LET i == MapIndex(kids, key) IN
    IF i = 0 THEN kids ELSE RemoveAt(kids, i)

----------------------------------------------------------------------------
(* serde_json::to_string and to_string_pretty                              *)

RECURSIVE DigitsOf(_)
DigitsOf(n) ==
    IF n < 10 THEN << Digits[n + 1] >>
    ELSE DigitsOf(n \div 10) \o << Digits[(n % 10) + 1] >>

RECURSIVE PadDigits(_, _)
PadDigits(n, width) ==
    IF width = 0 THEN <<>>
    ELSE PadDigits(n \div 10, width - 1) \o << Digits[(n % 10) + 1] >>

NumText(n) ==
    (IF n.neg THEN << "-" >> ELSE <<>>) \o
    (IF ~n.f THEN DigitsOf(n.m)
     ELSE DigitsOf(n.m \div Pow10(n.e)) \o << "." >> \o
          (IF n.e = 0 THEN << "0" >> ELSE PadDigits(n.m % Pow10(n.e), n.e)))

EscapeChar(c) ==
    CASE c = QUOTE -> << BSLASH, QUOTE >>
      [] c = BSLASH -> << BSLASH, BSLASH >>
      [] c = NL -> << BSLASH, "n" >>
      [] c = TAB -> << BSLASH, "t" >>
      [] OTHER -> << c >>

RECURSIVE Escape(_)
Escape(s) == IF s = <<>> THEN <<>> ELSE EscapeChar(Head(s)) \o Escape(Tail(s))

StrText(s) == << QUOTE >> \o Escape(s) \o << QUOTE >>

LitTrue == << "t", "r", "u", "e" >>
LitFalse == << "f", "a", "l", "s", "e" >>
LitNull == << "n", "u", "l", "l" >>

RECURSIVE to_string(_)
RECURSIVE CompactKids(_, _, _)
CompactKids(kids, i, isObj) ==
    IF i > Len(kids) THEN <<>>
    ELSE (IF i > 1 THEN << "," >> ELSE <<>>) \o
         (IF isObj THEN StrText(kids[i].k) \o << ":" >> ELSE <<>>) \o
         to_string(kids[i].v) \o
         CompactKids(kids, i + 1, isObj)

to_string(v) ==
    CASE v.t = "null" -> LitNull
      [] v.t = "bool" -> IF v.b THEN LitTrue ELSE LitFalse
      [] v.t = "number" -> NumText(v.num)
      [] v.t = "string" -> StrText(v.s)
      [] v.t = "array" -> << "[" >> \o CompactKids(v.kids, 1, FALSE) \o << "]" >>
      [] v.t = "object" -> << "{" >> \o CompactKids(v.kids, 1, TRUE) \o << "}" >>

\* PrettyFormatter's indent: two spaces per level.
RECURSIVE Indent(_)
Indent(depth) == IF depth = 0 THEN <<>> ELSE << " ", " " >> \o Indent(depth - 1)

RECURSIVE Pretty(_, _)
RECURSIVE PrettyKids(_, _, _, _)
PrettyKids(kids, i, isObj, depth) ==
    IF i > Len(kids) THEN <<>>
    ELSE (IF i > 1 THEN << ",", NL >> ELSE << NL >>) \o
         Indent(depth) \o
         (IF isObj THEN StrText(kids[i].k) \o << ":", " " >> ELSE <<>>) \o
         Pretty(kids[i].v, depth) \o
         PrettyKids(kids, i + 1, isObj, depth)

Pretty(v, depth) ==
    CASE v.t \in {"null", "bool", "number", "string"} -> to_string(v)
      [] v.t = "array" ->
            IF v.kids = <<>> THEN << "[", "]" >>
            ELSE << "[" >> \o PrettyKids(v.kids, 1, FALSE, depth + 1) \o
                 << NL >> \o Indent(depth) \o << "]" >>
      [] v.t = "object" ->
            IF v.kids = <<>> THEN << "{", "}" >>
            ELSE << "{" >> \o PrettyKids(v.kids, 1, TRUE, depth + 1) \o
                 << NL >> \o Indent(depth) \o << "}" >>

to_string_pretty(v) == Pretty(v, 0)

----------------------------------------------------------------------------
(* serde_json::from_str                                                    *)

\* A parse result: ok, the value, and the index of the next character.
Fail == [ok |-> FALSE, v |-> JNull, i |-> 0]
Ok(v, i) == [ok |-> TRUE, v |-> v, i |-> i]

RECURSIVE SkipWs(_, _)
SkipWs(s, i) == IF IsWs(At(s, i)) THEN SkipWs(s, i + 1) ELSE i

\* The index after the run of digits that starts at i.
RECURSIVE DigitRun(_, _)
DigitRun(s, i) == IF IsDigit(At(s, i)) THEN DigitRun(s, i + 1) ELSE i

\* The value of the digits s[i..j-1].
RECURSIVE DigitsVal(_, _, _)
DigitsVal(s, i, j) ==
    IF i >= j THEN 0 ELSE DigitsVal(s, i, j - 1) * 10 + DigitVal(s[j - 1])

\* A float of mantissa m (an integer) times 10^x.
ScaledFloat(neg, m, x) ==
    IF x >= 0 THEN JFloat(neg, m * Pow10(x), 0) ELSE JFloat(neg, m, -x)

ParseLit(s, i, lit, v) ==
    IF i + Len(lit) - 1 <= Len(s) /\ SubSeq(s, i, i + Len(lit) - 1) = lit
    THEN Ok(v, i + Len(lit))
    ELSE Fail

\* JSON number: -? (0 | [1-9][0-9]*) (. [0-9]+)? ([eE] [+-]? [0-9]+)?
ParseNumber(s, i) ==
    LET neg == At(s, i) = "-"
        i1 == IF neg THEN i + 1 ELSE i
        i2 == DigitRun(s, i1)
        hasFrac == At(s, i2) = "."
        i3 == IF hasFrac THEN DigitRun(s, i2 + 1) ELSE i2
        hasExp == At(s, i3) \in {"e", "E"}
        expNeg == hasExp /\ At(s, i3 + 1) = "-"
        i4 == IF hasExp /\ At(s, i3 + 1) \in {"+", "-"} THEN i3 + 2 ELSE i3 + 1
        i5 == IF hasExp THEN DigitRun(s, i4) ELSE i3
        intPart == DigitsVal(s, i1, i2)
        fracLen == IF hasFrac THEN i3 - (i2 + 1) ELSE 0
        mant == intPart * Pow10(fracLen) + (IF hasFrac THEN DigitsVal(s, i2 + 1, i3) ELSE 0)
        exp == IF hasExp THEN DigitsVal(s, i4, i5) ELSE 0
    IN  IF i2 = i1 THEN Fail
        ELSE IF i2 - i1 > 1 /\ s[i1] = "0" THEN Fail
        ELSE IF hasFrac /\ i3 = i2 + 1 THEN Fail
        ELSE IF hasExp /\ i5 = i4 THEN Fail
        ELSE IF ~hasFrac /\ ~hasExp
             THEN IF neg /\ intPart = 0
                  THEN Ok(JFloat(TRUE, 0, 0), i2)
                  ELSE Ok(JNumber([f |-> FALSE, neg |-> neg, m |-> intPart, e |-> 0]), i2)
        ELSE Ok(ScaledFloat(neg, mant, (IF expNeg THEN -exp ELSE exp) - fracLen), i5)

Unescape(c) ==
    CASE c = QUOTE -> << QUOTE >>
      [] c = BSLASH -> << BSLASH >>
      [] c = "/" -> << "/" >>
      [] c = "n" -> << NL >>
      [] c = "t" -> << TAB >>
      [] OTHER -> <<>>

\* The body of a JSON string from index i, up to its closing quote.
RECURSIVE ParseStrBody(_, _, _)
ParseStrBody(s, i, acc) ==
    LET c == At(s, i) IN
    IF c = QUOTE THEN [ok |-> TRUE, s |-> acc, i |-> i + 1]
    ELSE IF c = EOF \/ c = NL \/ c = TAB THEN [ok |-> FALSE, s |-> <<>>, i |-> 0]
    ELSE IF c = BSLASH
         THEN IF Unescape(At(s, i + 1)) = <<>>
              THEN [ok |-> FALSE, s |-> <<>>, i |-> 0]
              ELSE ParseStrBody(s, i + 2, acc \o Unescape(At(s, i + 1)))
    ELSE ParseStrBody(s, i + 1, Append(acc, c))

RECURSIVE ParseValue(_, _)
RECURSIVE ParseItems(_, _, _)
RECURSIVE ParseEntries(_, _, _)

\* The elements of an array, from the first character of an element.
ParseItems(s, i, acc) ==
    LET r == ParseValue(s, i)
        j == SkipWs(s, r.i)
    IN  IF ~r.ok THEN Fail
        ELSE IF At(s, j) = "," THEN ParseItems(s, SkipWs(s, j + 1), Append(acc, Entry(<<>>, r.v)))
        ELSE IF At(s, j) = "]" THEN Ok(JArray(Append(acc, Entry(<<>>, r.v))), j + 1)
        ELSE Fail

\* The entries of an object, from the opening quote of a key.
ParseEntries(s, i, acc) ==
    IF At(s, i) # QUOTE THEN Fail
    ELSE LET k == ParseStrBody(s, i + 1, <<>>)
             c == SkipWs(s, k.i)
             r == ParseValue(s, SkipWs(s, c + 1))
             j == SkipWs(s, r.i)
         IN  IF ~k.ok \/ At(s, c) # ":" THEN Fail
             ELSE IF ~r.ok THEN Fail
             ELSE IF At(s, j) = ","
                  THEN ParseEntries(s, SkipWs(s, j + 1), MapInsert(acc, k.s, r.v))
             ELSE IF At(s, j) = "}" THEN Ok(JObject(MapInsert(acc, k.s, r.v)), j + 1)
             ELSE Fail

ParseValue(s, i) ==
    LET c == At(s, i) IN
    CASE c = "{" ->
            IF At(s, SkipWs(s, i + 1)) = "}" THEN Ok(JObject(<<>>), SkipWs(s, i + 1) + 1)
            ELSE ParseEntries(s, SkipWs(s, i + 1), <<>>)
      [] c = "[" ->
            IF At(s, SkipWs(s, i + 1)) = "]" THEN Ok(JArray(<<>>), SkipWs(s, i + 1) + 1)
            ELSE ParseItems(s, SkipWs(s, i + 1), <<>>)
      [] c = QUOTE ->
            LET k == ParseStrBody(s, i + 1, <<>>) IN
            IF k.ok THEN Ok(JString(k.s), k.i) ELSE Fail
      [] c = "t" -> ParseLit(s, i, LitTrue, JBool(TRUE))
      [] c = "f" -> ParseLit(s, i, LitFalse, JBool(FALSE))
      [] c = "n" -> ParseLit(s, i, LitNull, JNull)
      [] c = "-" \/ IsDigit(c) -> ParseNumber(s, i)
      [] OTHER -> Fail

\* serde_json::from_str::<Value>: one value, then only whitespace.
Parse(s) ==
    LET r == ParseValue(s, SkipWs(s, 1)) IN
    IF r.ok /\ SkipWs(s, r.i) = Len(s) + 1 THEN Some(r.v) ELSE None

----------------------------------------------------------------------------
(* Rust standard library: str::parse::<f64>, str::parse::<usize>, nfc()    *)

ToLower(c) == CASE c = "E" -> "e" [] c = "N" -> "n" [] OTHER -> c

RECURSIVE LowerStr(_)
LowerStr(s) == IF s = <<>> THEN <<>> ELSE << ToLower(Head(s)) >> \o LowerStr(Tail(s))

\* f64::from_str: [+-]? (inf | infinity | nan | digits with an optional
\* point and at least one digit, with an optional exponent).  finite is
\* FALSE for inf and nan.
ParseF64(s) ==
    LET neg == At(s, 1) = "-"
        i1 == IF At(s, 1) \in {"+", "-"} THEN 2 ELSE 1
        word == LowerStr(SubSeq(s, i1, Len(s)))
        i2 == DigitRun(s, i1)
        hasDot == At(s, i2) = "."
        i3 == IF hasDot THEN DigitRun(s, i2 + 1) ELSE i2
        fracLen == IF hasDot THEN i3 - (i2 + 1) ELSE 0
        hasExp == At(s, i3) \in {"e", "E"}
        expNeg == hasExp /\ At(s, i3 + 1) = "-"
        i4 == IF hasExp /\ At(s, i3 + 1) \in {"+", "-"} THEN i3 + 2 ELSE i3 + 1
        i5 == IF hasExp THEN DigitRun(s, i4) ELSE i3
        mant == DigitsVal(s, i1, i2) * Pow10(fracLen)
                  + (IF hasDot THEN DigitsVal(s, i2 + 1, i3) ELSE 0)
        exp == IF hasExp THEN DigitsVal(s, i4, i5) ELSE 0
        bad == [ok |-> FALSE, finite |-> FALSE, v |-> JNull]
    IN  IF word \in { << "i", "n", "f" >>, << "n", "a", "n" >>,
                      << "i", "n", "f", "i", "n", "i", "t", "y" >> }
        THEN [ok |-> TRUE, finite |-> FALSE, v |-> JNull]
        ELSE IF (i2 - i1) + fracLen = 0 THEN bad
        ELSE IF hasExp /\ i5 = i4 THEN bad
        ELSE IF i5 # Len(s) + 1 THEN bad
        ELSE [ok |-> TRUE, finite |-> TRUE,
              v |-> ScaledFloat(neg, mant, (IF expNeg THEN -exp ELSE exp) - fracLen)]

\* usize::from_str: an optional "+", then one or more digits.
ParseUsize(s) ==
    LET i1 == IF At(s, 1) = "+" THEN 2 ELSE 1
        i2 == DigitRun(s, i1)
    IN  IF i2 > i1 /\ i2 = Len(s) + 1
        THEN [ok |-> TRUE, n |-> DigitsVal(s, i1, i2)]
        ELSE [ok |-> FALSE, n |-> 0]

\* UnicodeNormalization::nfc: a letter followed by the combining acute
\* accent becomes the precomposed letter.
RECURSIVE nfc(_)
nfc(s) ==
    IF Len(s) < 2 THEN s
    ELSE IF s[2] = ACUTE /\ Composed(s[1]) # ""
         THEN << Composed(s[1]) >> \o nfc(SubSeq(s, 3, Len(s)))
         ELSE << s[1] >> \o nfc(Tail(s))

----------------------------------------------------------------------------
(* JsonEditor: the operations, as functions of the editor record           *)

\* JsonEditor::max_history is 100; the model keeps a shorter history.
max_history == 2

\* The message of a failed validation ("JSON Error: " and serde's text).
JsonError == "JSON Error"

\* What a call returns: the editor after it, its result, and whether it
\* panicked (the editor is then as the panic left it).
Returned(e, ret) == [e |-> e, ret |-> ret, panic |-> FALSE]
Panicked(e) == [e |-> e, ret |-> FALSE, panic |-> TRUE]

\* A slip: a failed validation keeps the value parsed before.
validate_keeps_value(e) ==
    LET p == Parse(e.text) IN
    IF IsSome(p)
    THEN [e EXCEPT !.parsed_value = p, !.error_message = None]
    ELSE [e EXCEPT !.error_message = Some(JsonError)]

validate(e) ==
    LET p == Parse(e.text) IN
    IF IsSome(p)
    THEN [e EXCEPT !.parsed_value = p, !.error_message = None]
    ELSE [e EXCEPT !.parsed_value = None, !.error_message = Some(JsonError)]

with_text(t) ==
    validate([text |-> t, previous_text |-> t, parsed_value |-> None,
              error_message |-> None, pretty_print |-> TRUE,
              undo_stack |-> <<>>, redo_stack |-> <<>>,
              target_line |-> None, clicked_line |-> None, view_mode |-> "Text"])

\* Slips: a push with no capacity check; a push that drops the newest entry.
PushUnbounded(stack, t) == Append(stack, t)

PushDropsNewest(stack, t) ==
    IF Len(stack) >= max_history THEN stack ELSE Append(stack, t)

\* Vec::push followed by the capacity check of push_undo.
PushCapped(stack, t) ==
    LET pushed == Append(stack, t) IN
    IF Len(pushed) > max_history THEN Tail(pushed) ELSE pushed

\* A slip: the redo stack survives a new edit.
push_undo_keeps_redo(e) ==
    [e EXCEPT !.undo_stack = PushCapped(e.undo_stack, e.text)]

push_undo(e) ==
    [e EXCEPT !.undo_stack = PushCapped(e.undo_stack, e.text), !.redo_stack = <<>>]

set_text(e, t) == Returned(validate([push_undo(e) EXCEPT !.text = t]), TRUE)

\* A slip: undo does not keep the text it replaces.
undo_forgets_redo(e) ==
    IF e.undo_stack = <<>> THEN Returned(e, FALSE)
    ELSE LET previous == e.undo_stack[Len(e.undo_stack)] IN
         Returned(validate([e EXCEPT
                      !.undo_stack = SubSeq(e.undo_stack, 1, Len(e.undo_stack) - 1),
                      !.text = previous,
                      !.previous_text = previous]), TRUE)

undo(e) ==
    IF e.undo_stack = <<>> THEN Returned(e, FALSE)
    ELSE LET previous == e.undo_stack[Len(e.undo_stack)] IN
         Returned(validate([e EXCEPT
                      !.undo_stack = SubSeq(e.undo_stack, 1, Len(e.undo_stack) - 1),
                      !.redo_stack = Append(e.redo_stack, e.text),
                      !.text = previous,
                      !.previous_text = previous]), TRUE)

redo(e) ==
    IF e.redo_stack = <<>> THEN Returned(e, FALSE)
    ELSE LET next == e.redo_stack[Len(e.redo_stack)] IN
         Returned(validate([e EXCEPT
                      !.redo_stack = SubSeq(e.redo_stack, 1, Len(e.redo_stack) - 1),
                      !.undo_stack = Append(e.undo_stack, e.text),
                      !.text = next,
                      !.previous_text = next]), TRUE)

can_undo(e) == e.undo_stack # <<>>
can_redo(e) == e.redo_stack # <<>>
is_valid(e) == IsSome(e.parsed_value)

apply_pretty_print(e) ==
    IF IsSome(e.parsed_value)
    THEN LET pretty == to_string_pretty(Unwrap(e.parsed_value)) IN
         [e EXCEPT !.text = pretty, !.previous_text = pretty]
    ELSE e

\* A slip: only previous_text takes the compact text.
apply_compact_stale(e) ==
    IF IsSome(e.parsed_value)
    THEN LET compact == to_string(Unwrap(e.parsed_value)) IN
         [e EXCEPT !.previous_text = compact]
    ELSE e

apply_compact(e) ==
    IF IsSome(e.parsed_value)
    THEN LET compact == to_string(Unwrap(e.parsed_value)) IN
         [e EXCEPT !.text = compact, !.previous_text = compact]
    ELSE e

toggle_pretty_print(e) ==
    LET t == [e EXCEPT !.pretty_print = ~e.pretty_print] IN
    IF t.pretty_print THEN apply_pretty_print(t) ELSE apply_compact(t)

\* str::find (the index of the first match, 0 for none)
Find(s, c) ==
    IF \E i \in 1..Len(s) : s[i] = c
    THEN CHOOSE i \in 1..Len(s) : s[i] = c /\ \A j \in 1..(i - 1) : s[j] # c
    ELSE 0

\* str::lines: the text cut at its line feeds; a last line with no line
\* feed after it counts, the empty rest after the last line feed does not.
RECURSIVE Lines(_)
LinesAt(s, feed) ==
    IF feed = 0 THEN << s >>
    ELSE << SubSeq(s, 1, feed - 1) >> \o Lines(SubSeq(s, feed + 1, Len(s)))

Lines(s) == IF s = <<>> THEN <<>> ELSE LinesAt(s, Find(s, NL))

IsSpace(c) == c \in { " ", TAB, NL }

\* str::trim_start, str::trim
RECURSIVE TrimStart(_)
TrimStart(s) == IF s # <<>> /\ IsSpace(Head(s)) THEN TrimStart(Tail(s)) ELSE s

RECURSIVE TrimEnd(_)
TrimEnd(s) ==
    IF s # <<>> /\ IsSpace(s[Len(s)]) THEN TrimEnd(SubSeq(s, 1, Len(s) - 1)) ELSE s

Trim(s) == TrimEnd(TrimStart(s))

\* str::contains
Contains(s, needle) ==
    \E i \in 1..(Len(s) - Len(needle) + 1) : SubSeq(s, i, i + Len(needle) - 1) = needle

\* format!("\"{}\"", segment)
QuotedSegment(segment) == << QUOTE >> \o segment \o << QUOTE >>

scroll_to_line(e, line) == [e EXCEPT !.target_line = Some(line)]

\* A slip: the matched line is recorded as counted from zero.
MatchedLineFromZero(line_num) == line_num - 1

\* current_line = line_num + 1 with line_num counted from zero: the line's
\* number counted from one.
MatchedLine(line_num) == line_num

\* find_line_for_path, the loop: line_num and path_index count from one.
RECURSIVE ScanLines(_, _, _, _, _)
ScanLines(lines, path, line_num, path_index, current_line) ==
    IF line_num > Len(lines)
    THEN (IF current_line > 0 THEN Some(current_line) ELSE None)
    ELSE IF path_index <= Len(path)
            /\ Contains(Trim(lines[line_num]), QuotedSegment(path[path_index]))
    THEN IF path_index = Len(path) THEN Some(MatchedLine(line_num))
         ELSE ScanLines(lines, path, line_num + 1, path_index + 1, MatchedLine(line_num))
    ELSE ScanLines(lines, path, line_num + 1, path_index, current_line)

find_line_for_path(e, path) ==
    IF path = <<>> THEN Some(1) ELSE ScanLines(Lines(e.text), path, 1, 1, 0)

\* A slip: the clicked line is handed out and left in place.
take_keeps_clicked(e) == [e |-> e, ret |-> e.clicked_line]

\* take_clicked_line: self.clicked_line.take()
take_clicked_line(e) == [e |-> [e EXCEPT !.clicked_line = None], ret |-> e.clicked_line]

\* find_path_for_line: the key of a line is its first quoted run when a
\* colon follows it.
KeyAfter(trimmed, key_start, key_end) ==
    IF key_end = 0 THEN None
    ELSE IF LET rest == TrimStart(SubSeq(trimmed, key_start + key_end + 1, Len(trimmed)))
            IN rest # <<>> /\ Head(rest) = ":"
    THEN Some(SubSeq(trimmed, key_start + 1, key_start + key_end - 1))
    ELSE None

KeyFrom(trimmed, key_start) ==
    IF key_start = 0 THEN None
    ELSE KeyAfter(trimmed, key_start,
                  Find(SubSeq(trimmed, key_start + 1, Len(trimmed)), QUOTE))

LineKey(line) == KeyFrom(Trim(line), Find(Trim(line), QUOTE))

RECURSIVE KeysTo(_, _)
KeysTo(lines, target_line) ==
    IF target_line = 0 THEN <<>>
    ELSE KeysTo(lines, target_line - 1) \o LineKey(lines[target_line])

PathFound(path) == IF path = <<>> THEN None ELSE Some(path)

find_path_for_line(e, target_line) ==
    IF target_line = 0 THEN None
    ELSE IF target_line > Len(Lines(e.text)) THEN None
    ELSE PathFound(KeysTo(Lines(e.text), target_line))

toggle_view_mode(e) ==
    [e EXCEPT !.view_mode = IF e.view_mode = "Text" THEN "Tree" ELSE "Text"]

\* render_text_editor: the scroll offset is computed from target_line, and
\* target_line is cleared; only the Text view renders the text editor.
render_scroll(e) ==
    IF e.view_mode = "Text" THEN [e EXCEPT !.target_line = None] ELSE e

\* render_text_editor: a click on the number of line i.
click_line(e, i) == [e EXCEPT !.clicked_line = Some(i)]

\* The text a value edit carries, as a Value; panic when the slice
\* [1 .. len - 1] of a quoted text is out of order.
Coerce(str) ==
    IF Len(str) >= 1 /\ str[1] = QUOTE /\ str[Len(str)] = QUOTE
    THEN IF 1 > Len(str) - 1
         THEN [panic |-> TRUE, v |-> JNull]
         ELSE [panic |-> FALSE, v |-> JString(SubSeq(str, 2, Len(str) - 1))]
    ELSE IF ParseF64(str).ok
         THEN [panic |-> FALSE,
               v |-> IF ParseF64(str).finite THEN ParseF64(str).v ELSE JNull]
    ELSE IF str = LitTrue THEN [panic |-> FALSE, v |-> JBool(TRUE)]
    ELSE IF str = LitFalse THEN [panic |-> FALSE, v |-> JBool(FALSE)]
    ELSE IF str = LitNull THEN [panic |-> FALSE, v |-> JNull]
    ELSE [panic |-> FALSE, v |-> JString(str)]

\* navigate_to_path_mut: the location a path resolves to, as the indices
\* of the children taken from the root (loc), or ok = FALSE.
RECURSIVE navigate_to_path_mut(_, _)
navigate_to_path_mut(value, path) ==
    IF path = <<>> THEN [ok |-> TRUE, loc |-> <<>>]
    ELSE LET segment == Head(path)
             index == ParseUsize(segment)
             i == CASE value.t = "object" -> MapIndex(value.kids, segment)
                    [] value.t = "array" ->
                          IF index.ok /\ index.n < Len(value.kids) THEN index.n + 1 ELSE 0
                    [] OTHER -> 0
             rest == navigate_to_path_mut(value.kids[i].v, Tail(path))
         IN  IF i = 0 THEN [ok |-> FALSE, loc |-> <<>>]
             ELSE IF ~rest.ok THEN [ok |-> FALSE, loc |-> <<>>]
             ELSE [ok |-> TRUE, loc |-> << i >> \o rest.loc]

\* The value a location refers to, and the tree after a store through it.
RECURSIVE Deref(_, _)
Deref(value, loc) ==
    IF loc = <<>> THEN value ELSE Deref(value.kids[Head(loc)].v, Tail(loc))

RECURSIVE Store(_, _, _)
Store(value, loc, new) ==
    IF loc = <<>> THEN new
    ELSE [value EXCEPT !.kids[Head(loc)].v = Store(value.kids[Head(loc)].v, Tail(loc), new)]

\* The block every successful mutation ends with: push the current text,
\* regenerate the text from the mutated clone, install the clone.
Commit(e, value) ==
    LET pretty == to_string_pretty(value) IN
    Returned([push_undo(e) EXCEPT !.text = pretty,
                                  !.previous_text = pretty,
                                  !.parsed_value = Some(value),
                                  !.error_message = None], TRUE)

\* A slip: the history is pushed before the mutation is known to apply.
RejectedAfterPush(e) == Returned(push_undo(e), FALSE)

\* The "false" a mutation falls through to when it is rejected.
Rejected(e) == Returned(e, FALSE)

update_value_at_path(e, path, new_value_str) ==
    IF ~IsSome(e.parsed_value) THEN Rejected(e)
    ELSE LET value == Unwrap(e.parsed_value)
             target == navigate_to_path_mut(value, path)
             new_value == Coerce(new_value_str)
         IN  IF ~target.ok THEN Rejected(e)
             ELSE IF new_value.panic THEN Panicked(e)
             ELSE Commit(e, Store(value, target.loc, new_value.v))

delete_value_at_path(e, path) ==
    IF path = <<>> THEN Rejected(e)
    ELSE IF ~IsSome(e.parsed_value) THEN Rejected(e)
    ELSE LET value == Unwrap(e.parsed_value)
             parent_path == SubSeq(path, 1, Len(path) - 1)
             key == path[Len(path)]
             target == navigate_to_path_mut(value, parent_path)
             parent == Deref(value, target.loc)
             index == ParseUsize(key)
         IN  IF ~target.ok THEN Rejected(e)
             ELSE IF parent.t = "object"
                  THEN IF MapContains(parent.kids, key)
                       THEN Commit(e, Store(value, target.loc,
                                            JObject(MapRemove(parent.kids, key))))
                       ELSE Rejected(e)
             ELSE IF parent.t = "array"
                  THEN IF index.ok /\ index.n < Len(parent.kids)
                       THEN Commit(e, Store(value, target.loc,
                                            JArray(RemoveAt(parent.kids, index.n + 1))))
                       ELSE Rejected(e)
             ELSE Rejected(e)

add_value_at_path(e, path, key, value_str) ==
    IF ~IsSome(e.parsed_value) THEN Rejected(e)
    ELSE LET value == Unwrap(e.parsed_value)
             target == navigate_to_path_mut(value, path)
             container == Deref(value, target.loc)
             new_value == Coerce(value_str)
         IN  IF ~target.ok THEN Rejected(e)
             ELSE IF new_value.panic THEN Panicked(e)
             ELSE IF container.t = "object"
                  THEN IF key = <<>> THEN Rejected(e)
                       ELSE Commit(e, Store(value, target.loc,
                                     JObject(MapInsert(container.kids, key, new_value.v))))
             ELSE IF container.t = "array"
                  THEN Commit(e, Store(value, target.loc,
                                JArray(Append(container.kids, Entry(<<>>, new_value.v)))))
             ELSE Rejected(e)

\* A slip: rename without the check for a key that is already there.
rename_overwrites(e, path, old_key, new_key) ==
    IF ~IsSome(e.parsed_value) THEN Rejected(e)
    ELSE LET value == Unwrap(e.parsed_value)
             target == navigate_to_path_mut(value, path)
             container == Deref(value, target.loc)
             old_value == container.kids[MapIndex(container.kids, old_key)].v
         IN  IF ~target.ok THEN Rejected(e)
             ELSE IF container.t # "object" THEN Rejected(e)
             ELSE IF ~MapContains(container.kids, old_key) THEN Rejected(e)
             ELSE Commit(e, Store(value, target.loc,
                           JObject(MapInsert(MapRemove(container.kids, old_key),
                                             new_key, old_value))))

rename_key_at_path(e, path, old_key, new_key) ==
    IF ~IsSome(e.parsed_value) THEN Rejected(e)
    ELSE LET value == Unwrap(e.parsed_value)
             target == navigate_to_path_mut(value, path)
             container == Deref(value, target.loc)
             old_value == container.kids[MapIndex(container.kids, old_key)].v
         IN  IF ~target.ok THEN Rejected(e)
             ELSE IF container.t # "object" THEN Rejected(e)
             ELSE IF ~MapContains(container.kids, old_key) THEN Rejected(e)
             ELSE IF MapContains(container.kids, new_key) /\ old_key # new_key
                  THEN Rejected(e)
             ELSE Commit(e, Store(value, target.loc,
                           JObject(MapInsert(MapRemove(container.kids, old_key),
                                             new_key, old_value))))

\* JsonEditor::ui, toolbar: the Pretty and Compact buttons.
pretty_button(e) == IF is_valid(e) THEN apply_pretty_print(push_undo(e)) ELSE e
compact_button(e) == IF is_valid(e) THEN apply_compact(push_undo(e)) ELSE e

\* render_text_editor, the branch of response.changed(): the widget has
\* already written the edited text (raw) into self.text.
text_changed(e, raw) ==
    LET typed == [e EXCEPT !.text = nfc(raw)] IN
    validate(IF typed.text # typed.previous_text
             THEN [typed EXCEPT
                      !.undo_stack = PushCapped(typed.undo_stack, typed.previous_text),
                      !.redo_stack = <<>>,
                      !.previous_text = typed.text]
             ELSE typed)

----------------------------------------------------------------------------
(* JsonGraph: build_from_json and build_node                               *)

\* str::len counts UTF-8 bytes: one for ASCII, two up to U+07FF, else three.
TwoBytes ==
    { "U+00C9", "U+00E1", "U+00E9", "U+00ED", "U+00FA", "U+00FD", "U+0107",
      "U+013A", "U+0143", "U+0144", "U+0155", "U+015B", ACUTE }

ByteLen(c) ==
    IF c = "U+1E31" THEN 3
    ELSE IF c \in TwoBytes THEN 2
    ELSE 1

RECURSIVE StrBytes(_)
StrBytes(s) == IF s = <<>> THEN 0 ELSE ByteLen(Head(s)) + StrBytes(Tail(s))

\* &s[..n]: the characters of the first n bytes; a panic when byte n is not
\* a character boundary.
PrefixCons(c, r) == [panic |-> r.panic, v |-> << c >> \o r.v]

RECURSIVE BytePrefix(_, _)
BytePrefix(s, n) ==
    IF n = 0 THEN [panic |-> FALSE, v |-> <<>>]
    ELSE IF s = <<>> \/ ByteLen(Head(s)) > n THEN [panic |-> TRUE, v |-> <<>>]
    ELSE PrefixCons(Head(s), BytePrefix(Tail(s), n - ByteLen(Head(s))))

\* The display of a String: quoted, cut to limit bytes and "..." if longer.
Cut(r) == [panic |-> r.panic, v |-> << QUOTE >> \o r.v \o << ".", ".", ".", QUOTE >>]

StringDisplay(s, limit) ==
    IF StrBytes(s) > limit THEN Cut(BytePrefix(s, limit))
    ELSE [panic |-> FALSE, v |-> << QUOTE >> \o s \o << QUOTE >>]

\* A slip: the display of a row's String is cut to 3 bytes.
RowStringDisplayShort(s) == StringDisplay(s, 3)

\* The display of a String in a row of its parent (graph.rs:276, 303).
RowStringDisplay(s) == StringDisplay(s, 30)

\* The display of a String that is a node of its own (graph.rs:324).
NodeStringDisplay(s) == StringDisplay(s, 20)

\* NodeType of a value.
NodeTypeOf(val) ==
    CASE val.t = "object" -> "Object"
      [] val.t = "array" -> "Array"
      [] val.t = "string" -> "String"
      [] val.t = "number" -> "Number"
      [] val.t = "bool" -> "Boolean"
      [] OTHER -> "Null"

\* (value_display, value_type, is_reference) of a child value.
Shown(d) == [panic |-> d.panic, is_reference |-> FALSE, v |-> d.v]

RowDisplay(val) ==
    CASE val.t = "object" ->
            [panic |-> FALSE, is_reference |-> TRUE,
             v |-> << "{", " " >> \o DigitsOf(Len(val.kids)) \o << " ", "}" >>]
      [] val.t = "array" ->
            [panic |-> FALSE, is_reference |-> TRUE,
             v |-> << "[", " " >> \o DigitsOf(Len(val.kids)) \o << " ", "]" >>]
      [] val.t = "string" -> Shown(RowStringDisplay(val.s))
      [] val.t = "number" ->
            [panic |-> FALSE, is_reference |-> FALSE, v |-> NumText(val.num)]
      [] val.t = "bool" ->
            [panic |-> FALSE, is_reference |-> FALSE,
             v |-> IF val.b THEN LitTrue ELSE LitFalse]
      [] OTHER -> [panic |-> FALSE, is_reference |-> FALSE, v |-> LitNull]

\* KeyValuePair and ArrayItem.
KeyValuePair(key, val, d) ==
    [key |-> key, value_display |-> d.v,
     value_type |-> NodeTypeOf(val), is_reference |-> d.is_reference]

ArrayItem(index, val, d) ==
    [index |-> index, value_display |-> d.v,
     value_type |-> NodeTypeOf(val), is_reference |-> d.is_reference]

\* NodeContent: Object(pairs), Array(items) or Primitive(display).
ObjectContent(kids) ==
    [kind |-> "Object",
     pairs |-> [i \in 1..Len(kids) |->
                    KeyValuePair(kids[i].k, kids[i].v, RowDisplay(kids[i].v))],
     items |-> <<>>, display |-> <<>>]

ArrayContent(kids) ==
    [kind |-> "Array", pairs |-> <<>>,
     items |-> [i \in 1..Len(kids) |->
                    ArrayItem(i - 1, kids[i].v, RowDisplay(kids[i].v))],
     display |-> <<>>]

PrimitiveContent(display) ==
    [kind |-> "Primitive", pairs |-> <<>>, items |-> <<>>, display |-> display]

\* The rows of a container are built one after the other: a panic in one
\* of them ends the build.
RowsPanic(kids) == \E i \in 1..Len(kids) : RowDisplay(kids[i].v).panic

StringParts(d) == [panic |-> d.panic, label |-> d.v, content |-> PrimitiveContent(d.v)]

\* (label, node_type, content) of a value, the first match of build_node.
NodeParts(value) ==
    CASE value.t = "object" ->
            [panic |-> RowsPanic(value.kids),
             label |-> << "O", "b", "j", "e", "c", "t", " ", "(" >> \o
                       DigitsOf(Len(value.kids)) \o << ")" >>,
             content |-> ObjectContent(value.kids)]
      [] value.t = "array" ->
            [panic |-> RowsPanic(value.kids),
             label |-> << "A", "r", "r", "a", "y", " ", "[" >> \o
                       DigitsOf(Len(value.kids)) \o << "]" >>,
             content |-> ArrayContent(value.kids)]
      [] value.t = "string" -> StringParts(NodeStringDisplay(value.s))
      [] OTHER ->
            [panic |-> FALSE,
             label |-> to_string(value),
             content |-> PrimitiveContent(to_string(value))]

Max(a, b) == IF a > b THEN a ELSE b

\* calculate_node_size: width 250, header 25, 22 a row for at most 10 rows,
\* padding 10, height at least 60; a Primitive is 120 by 40.
calculate_node_size(content) ==
    LET rows == IF content.kind = "Object" THEN Len(content.pairs) ELSE Len(content.items)
        visible_rows == IF rows < 10 THEN rows ELSE 10
    IN  IF content.kind = "Primitive" THEN [x |-> 120, y |-> 40]
        ELSE [x |-> 250, y |-> Max(25 + visible_rows * 22 + 10, 60)]

GraphNode(id, value, parts, depth, x_offset, json_path) ==
    [id |-> id,
     label |-> parts.label,
     node_type |-> NodeTypeOf(value),
     position |-> [x |-> 100 + x_offset, y |-> 50 + depth * 200],
     size |-> calculate_node_size(parts.content),
     json_path |-> json_path,
     content |-> parts.content]

GraphEdge(from, to, label) == [from |-> from, to |-> to, label |-> label]

\* A slip: the elements of an Array are counted from one.
ChildSegmentFromOne(value, i) ==
    IF value.t = "object" THEN value.kids[i].k ELSE DigitsOf(i)

\* The last segment of a child's path and the label of the edge to it.
ChildSegment(value, i) ==
    IF value.t = "object" THEN value.kids[i].k ELSE DigitsOf(i - 1)

\* A slip: the edge to an element of an Array is labelled with the bare index.
ChildEdgeLabelBare(value, i) ==
    IF value.t = "object" THEN value.kids[i].k ELSE DigitsOf(i - 1)

ChildEdgeLabel(value, i) ==
    IF value.t = "object" THEN value.kids[i].k
    ELSE << "[" >> \o DigitsOf(i - 1) \o << "]" >>

\* A slip: every child is handed the offset of its parent.
ChildOffsetStuck(child_offset, child_width) == child_offset

\* child_offset += child_width
ChildOffsetNext(child_offset, child_width) == child_offset + child_width

\* build_node on graph g: the graph after it, the width of the subtree, and
\* whether it panicked.  BuildChildren is the loop over the children from
\* the i-th on, ChildBuilt its body once the child's subtree is built, and
\* NodeBuilt the end of build_node once the loop is done.
RECURSIVE build_node(_, _, _, _, _, _, _)
RECURSIVE BuildChildren(_, _, _, _, _, _, _, _)
RECURSIVE ChildBuilt(_, _, _, _, _, _, _, _)
ChildBuilt(child, value, i, node_id, depth, child_offset, total_width, json_path) ==
    IF child.panic THEN [g |-> child.g, width |-> 0, panic |-> TRUE]
    ELSE BuildChildren(child.g, value, i + 1, node_id, depth,
                       ChildOffsetNext(child_offset, child.width),
                       total_width + child.width, json_path)

BuildChildren(g, value, i, node_id, depth, child_offset, total_width, json_path) ==
    IF value.t \notin { "object", "array" } \/ i > Len(value.kids)
    THEN [g |-> g, width |-> total_width, panic |-> FALSE]
    ELSE IF value.kids[i].v.t \in { "object", "array" }
    THEN ChildBuilt(build_node(g, value.kids[i].v, Some(node_id),
                               Some(ChildEdgeLabel(value, i)), depth + 1, child_offset,
                               Append(json_path, ChildSegment(value, i))),
                    value, i, node_id, depth, child_offset, total_width, json_path)
    ELSE BuildChildren(g, value, i + 1, node_id, depth, child_offset, total_width,
                       json_path)

NodeBuilt(children) ==
    IF children.panic THEN children
    ELSE [g |-> children.g,
          width |-> IF children.width > 0 THEN children.width ELSE 300,
          panic |-> FALSE]

\* next_id += 1, nodes.push(node), edges.push(edge from the parent)
NodePushed(g, value, parts, parent_id, edge_label, depth, x_offset, json_path) ==
    [g EXCEPT
        !.next_id = @ + 1,
        !.nodes = Append(@, GraphNode(g.next_id, value, parts, depth, x_offset,
                                      json_path)),
        !.edges = IF IsSome(parent_id)
                  THEN Append(@, GraphEdge(Unwrap(parent_id), g.next_id, edge_label))
                  ELSE @]

NodeOf(g, value, parts, parent_id, edge_label, depth, x_offset, json_path) ==
    IF parts.panic
    THEN [g |-> [g EXCEPT !.next_id = @ + 1], width |-> 0, panic |-> TRUE]
    ELSE NodeBuilt(BuildChildren(NodePushed(g, value, parts, parent_id, edge_label,
                                            depth, x_offset, json_path),
                                 value, 1, g.next_id, depth, x_offset, 0, json_path))

build_node(g, value, parent_id, edge_label, depth, x_offset, json_path) ==
    NodeOf(g, value, NodeParts(value), parent_id, edge_label, depth, x_offset, json_path)

\* JsonGraph::new()
new_graph ==
    [nodes |-> <<>>, edges |-> <<>>, next_id |-> 0, selected_node |-> None,
     editing_cell |-> None, adding_state |-> None, renaming_key |-> None,
     context_menu |-> None, pending_edit |-> None]

\* A slip: the id counter is not set back.
ClearedKeepsIds(g) ==
    [g EXCEPT !.nodes = <<>>, !.edges = <<>>,
              !.selected_node = None, !.editing_cell = None,
              !.adding_state = None, !.renaming_key = None,
              !.context_menu = None, !.pending_edit = None]

\* What build_from_json sets before it builds.
Cleared(g) ==
    [g EXCEPT !.nodes = <<>>, !.edges = <<>>, !.next_id = 0,
              !.selected_node = None, !.editing_cell = None,
              !.adding_state = None, !.renaming_key = None,
              !.context_menu = None, !.pending_edit = None]

\* build_node's width is dropped.
Built(r) == [g |-> r.g, panic |-> r.panic]

\* A slip: the return for Null comes before the lists are cleared.
build_returns_early(g, value) ==
    IF value.t = "null" THEN [g |-> g, panic |-> FALSE]
    ELSE Built(build_node(Cleared(g), value, None, None, 0, 0, <<>>))

build_from_json(g, value) ==
    IF value.t = "null" THEN [g |-> Cleared(g), panic |-> FALSE]
    ELSE Built(build_node(Cleared(g), value, None, None, 0, 0, <<>>))

----------------------------------------------------------------------------
(* JsonGraph: the cells of a node and the edit dialog                      *)

\* The rows of a node, and the key a row is addressed by (the key of a
\* pair, the index of an item as text).
RowsOf(node) ==
    IF node.content.kind = "Object" THEN node.content.pairs ELSE node.content.items

RowKey(node, r) ==
    IF node.content.kind = "Object" THEN node.content.pairs[r].key
    ELSE DigitsOf(node.content.items[r].index)

\* The row a key addresses: pairs.iter().find(key), or items.get(index).
RowIndexOf(node, key) ==
    CASE node.content.kind = "Object" ->
            IF \E i \in 1..Len(node.content.pairs) : node.content.pairs[i].key = key
            THEN CHOOSE i \in 1..Len(node.content.pairs) :
                    /\ node.content.pairs[i].key = key
                    /\ \A j \in 1..(i - 1) : node.content.pairs[j].key # key
            ELSE 0
      [] node.content.kind = "Array" ->
            IF ParseUsize(key).ok /\ ParseUsize(key).n < Len(node.content.items)
            THEN ParseUsize(key).n + 1
            ELSE 0
      [] OTHER -> 0

\* A slip: the display is handed out with its quotes.
KeepQuotes(display) == display

\* display[1..display.len()-1] when the display starts and ends with a quote.
StripQuotes(display) ==
    IF Len(display) >= 2 /\ display[1] = QUOTE /\ display[Len(display)] = QUOTE
    THEN SubSeq(display, 2, Len(display) - 1)
    ELSE display

get_cell_value(node, key) ==
    LET i == RowIndexOf(node, key)
        row == RowsOf(node)[i]
    IN  IF i = 0 THEN None
        ELSE IF row.value_type = "String" THEN Some(StripQuotes(row.value_display))
        ELSE Some(row.value_display)

validate_value(new_value, value_type) ==
    CASE value_type = "String" -> Some(<< QUOTE >> \o new_value \o << QUOTE >>)
      [] value_type = "Number" ->
            IF ParseF64(new_value).ok THEN Some(new_value) ELSE None
      [] value_type = "Boolean" ->
            IF LowerStr(new_value) \in { LitTrue, LitFalse }
            THEN Some(LowerStr(new_value)) ELSE None
      [] value_type = "Null" ->
            IF LowerStr(new_value) = LitNull THEN Some(LitNull) ELSE None
      [] OTHER -> None

update_cell_value(node, key, validated_value) ==
    LET i == RowIndexOf(node, key) IN
    IF i = 0 THEN [ok |-> FALSE, node |-> node]
    ELSE IF node.content.kind = "Object"
    THEN [ok |-> TRUE,
          node |-> [node EXCEPT !.content.pairs[i].value_display = validated_value]]
    ELSE [ok |-> TRUE,
          node |-> [node EXCEPT !.content.items[i].value_display = validated_value]]

\* EditResult: a path and a ModifyOperation.
EditResult(json_path, kind) ==
    [json_path |-> json_path, kind |-> kind, new_value |-> <<>>, key |-> <<>>,
     value |-> <<>>, old_key |-> <<>>, new_key |-> <<>>]

UpdateResult(json_path, new_value) ==
    [EditResult(json_path, "Update") EXCEPT !.new_value = new_value]

DeleteResult(json_path) == EditResult(json_path, "Delete")

\* The position in g.nodes of the node with an id (nodes.iter().find), or 0.
NodeIndex(g, id) ==
    IF \E n \in 1..Len(g.nodes) : g.nodes[n].id = id
    THEN CHOOSE n \in 1..Len(g.nodes) :
            /\ g.nodes[n].id = id
            /\ \A m \in 1..(n - 1) : g.nodes[m].id # id
    ELSE 0

\* get_click_action: the rows that can be clicked are the first ten.
RowVisible(node, r) ==
    /\ node.content.kind \in { "Object", "Array" }
    /\ r \in 1..Len(RowsOf(node))
    /\ r <= 10

\* ui(), last lines: a click on the canvas closes an open context menu.
canvas_clicked(g) == [g EXCEPT !.context_menu = None]

\* ui(), a click on the value column of row r of the n-th node: EditCell.
click_edit_cell(g, n, r) ==
    LET node == g.nodes[n]
        key == RowKey(node, r)
        current_value == get_cell_value(node, key)
    IN  IF IsSome(current_value)
        THEN [g EXCEPT !.editing_cell =
                 Some([node_id |-> node.id, key |-> key,
                       text |-> Unwrap(current_value),
                       value_type |-> RowsOf(node)[r].value_type]),
                       !.context_menu = None]
        ELSE canvas_clicked(g)

\* ui(), Save in the edit dialog: validate, write the cell, leave a pending
\* edit and close the dialog; a text that does not validate leaves all as
\* it is.
save_edit(g) ==
    LET editing == Unwrap(g.editing_cell)
        validated_value == validate_value(editing.text, editing.value_type)
        n == NodeIndex(g, editing.node_id)
        cell == update_cell_value(g.nodes[n], editing.key, Unwrap(validated_value))
    IN  IF ~IsSome(validated_value) THEN g
        ELSE IF n = 0 THEN g
        ELSE IF ~cell.ok THEN g
        ELSE [g EXCEPT !.nodes[n] = cell.node,
                       !.pending_edit =
                           Some(UpdateResult(Append(g.nodes[n].json_path, editing.key),
                                             Unwrap(validated_value))),
                       !.editing_cell = None]

\* ui(), a click on the delete button of row r of the n-th node.
click_delete_row(g, n, r) ==
    [g EXCEPT !.pending_edit =
                  Some(DeleteResult(Append(g.nodes[n].json_path, RowKey(g.nodes[n], r)))),
              !.context_menu = None]

\* ui(), a click on the n-th node outside its rows.
click_node(g, n) ==
    [g EXCEPT !.selected_node = Some(g.nodes[n].id), !.context_menu = None]

\* get_click_action: the add button lies five units under the rows; a click
\* reaches it only inside the node's rectangle.
AddButtonTop(node) ==
    (IF Len(RowsOf(node)) > 10 THEN 25 + 10 * 22 + 22 ELSE 25 + Len(RowsOf(node)) * 22) + 5

AddButtonInside(node) ==
    /\ node.content.kind \in { "Object", "Array" }
    /\ AddButtonTop(node) <= node.size.y

AddingState(node_id, is_object) ==
    [node_id |-> node_id, is_object |-> is_object, key |-> <<>>, value |-> <<>>,
     value_type |-> "String"]

RenamingKey(node_id, old_key) ==
    [node_id |-> node_id, old_key |-> old_key, new_key |-> old_key]

\* ui(), a click on the add button of the n-th node: AddRow.
click_add_row(g, n) ==
    [g EXCEPT !.adding_state =
                  Some(AddingState(g.nodes[n].id, g.nodes[n].content.kind = "Object")),
              !.context_menu = None]

\* ui(), a click on the key column of row r of the n-th node: RenameKey.
click_rename_key(g, n, r) ==
    [g EXCEPT !.renaming_key = Some(RenamingKey(g.nodes[n].id, RowKey(g.nodes[n], r))),
              !.context_menu = None]

\* The text fields and the type selector of the dialogs, as the user leaves
\* them.
type_edit(g, str) ==
    [g EXCEPT !.editing_cell = Some([Unwrap(g.editing_cell) EXCEPT !.text = str])]

type_add(g, key, value, value_type) ==
    [g EXCEPT !.adding_state =
        Some([Unwrap(g.adding_state) EXCEPT
                 !.key = IF Unwrap(g.adding_state).is_object THEN key ELSE <<>>,
                 !.value = value, !.value_type = value_type])]

type_rename(g, new_key) ==
    [g EXCEPT !.renaming_key = Some([Unwrap(g.renaming_key) EXCEPT !.new_key = new_key])]

\* Cancel or Escape in a dialog.
cancel_edit(g) == [g EXCEPT !.editing_cell = None]
cancel_add(g) == [g EXCEPT !.adding_state = None]
cancel_rename(g) == [g EXCEPT !.renaming_key = None]

AddResult(json_path, key, value) ==
    [EditResult(json_path, "Add") EXCEPT !.key = key, !.value = value]

RenameResult(json_path, old_key, new_key) ==
    [EditResult(json_path, "Rename") EXCEPT !.old_key = old_key, !.new_key = new_key]

\* A slip: the add dialog closes whether or not the value validates.
AddRejectedCloses(g) == [g EXCEPT !.adding_state = None]

\* Add with an empty property name or a value that does not validate: the
\* console is written to, nothing else.
AddRejected(g) == g

\* ui(), Add in the add dialog.
save_add(g) ==
    LET adding == Unwrap(g.adding_state)
        validated_value == validate_value(adding.value, adding.value_type)
        n == NodeIndex(g, adding.node_id)
    IN  IF adding.is_object /\ adding.key = <<>> THEN AddRejected(g)
        ELSE IF ~IsSome(validated_value) THEN AddRejected(g)
        ELSE IF n = 0 THEN g
        ELSE [g EXCEPT !.pending_edit =
                           Some(AddResult(g.nodes[n].json_path,
                                          IF adding.is_object THEN adding.key ELSE <<>>,
                                          Unwrap(validated_value))),
                       !.adding_state = None]

\* ui(), Rename in the rename dialog.
save_rename(g) ==
    LET renaming == Unwrap(g.renaming_key)
        n == NodeIndex(g, renaming.node_id)
    IN  IF renaming.new_key = <<>> THEN g
        ELSE IF renaming.new_key = renaming.old_key THEN [g EXCEPT !.renaming_key = None]
        ELSE IF n = 0 THEN g
        ELSE [g EXCEPT !.pending_edit =
                           Some(RenameResult(g.nodes[n].json_path, renaming.old_key,
                                             renaming.new_key)),
                       !.renaming_key = None]

\* get_context_menu_info: the menu of row r, or of the add button (r = 0).
ContextMenuState(node, r) ==
    IF r = 0
    THEN [node_id |-> node.id, row_key |-> None,
          is_object |-> (node.content.kind = "Object"), is_primitive |-> FALSE,
          value_type |-> None]
    ELSE [node_id |-> node.id, row_key |-> Some(RowKey(node, r)),
          is_object |-> (node.content.kind = "Object"),
          is_primitive |-> ~RowsOf(node)[r].is_reference,
          value_type |-> IF RowsOf(node)[r].is_reference THEN None
                         ELSE Some(RowsOf(node)[r].value_type)]

\* ui(), a right click on row r (or the add button) of the n-th node.
open_context_menu(g, n, r) ==
    [g EXCEPT !.context_menu = Some(ContextMenuState(g.nodes[n], r))]

\* ui(), the entries of the context menu; each closes the menu.
MenuEdited(g, menu, n, current_value) ==
    IF n # 0 /\ IsSome(current_value)
    THEN [g EXCEPT !.editing_cell =
             Some([node_id |-> menu.node_id, key |-> Unwrap(menu.row_key),
                   text |-> Unwrap(current_value),
                   value_type |-> Unwrap(menu.value_type)]),
                   !.context_menu = None]
    ELSE [g EXCEPT !.context_menu = None]

MenuEditAt(g, menu, n) ==
    MenuEdited(g, menu, n,
               IF n = 0 THEN None ELSE get_cell_value(g.nodes[n], Unwrap(menu.row_key)))

menu_edit_value(g) ==
    MenuEditAt(g, Unwrap(g.context_menu), NodeIndex(g, Unwrap(g.context_menu).node_id))

menu_rename_key(g) ==
    [g EXCEPT !.renaming_key =
                  Some(RenamingKey(Unwrap(g.context_menu).node_id,
                                   Unwrap(Unwrap(g.context_menu).row_key))),
              !.context_menu = None]

MenuDeleteAt(g, menu, n) ==
    IF n = 0 THEN [g EXCEPT !.context_menu = None]
    ELSE [g EXCEPT !.pending_edit =
                       Some(DeleteResult(Append(g.nodes[n].json_path,
                                                Unwrap(menu.row_key)))),
                   !.context_menu = None]

menu_delete(g) ==
    MenuDeleteAt(g, Unwrap(g.context_menu), NodeIndex(g, Unwrap(g.context_menu).node_id))

menu_add(g) ==
    [g EXCEPT !.adding_state =
                  Some(AddingState(Unwrap(g.context_menu).node_id,
                                   Unwrap(g.context_menu).is_object)),
              !.context_menu = None]

menu_cancel(g) == [g EXCEPT !.context_menu = None]

\* select_by_path: the first node with the path itself; failing that the
\* node that shares the longest run of leading segments with the path.
RECURSIVE ExactMatch(_, _, _)
ExactMatch(nodes, path, n) ==
    IF n > Len(nodes) THEN 0
    ELSE IF nodes[n].json_path = path THEN n
    ELSE ExactMatch(nodes, path, n + 1)

\* zip(..).take_while(|(a, b)| a == b).count()
RECURSIVE MatchLen(_, _)
MatchLen(a, b) ==
    IF a = <<>> \/ b = <<>> THEN 0
    ELSE IF Head(a) # Head(b) THEN 0
    ELSE 1 + MatchLen(Tail(a), Tail(b))

\* A slip: a later node with the same run replaces the best match.
BetterOrSame(match_len, best_match_len) == match_len > 0 /\ match_len >= best_match_len

BetterMatch(match_len, best_match_len) == match_len > 0 /\ match_len > best_match_len

RECURSIVE BestMatch(_, _, _, _, _)
BestKept(nodes, path, n, best_match, best_match_len, match_len) ==
    IF BetterMatch(match_len, best_match_len)
    THEN BestMatch(nodes, path, n + 1, n, match_len)
    ELSE BestMatch(nodes, path, n + 1, best_match, best_match_len)

BestMatch(nodes, path, n, best_match, best_match_len) ==
    IF n > Len(nodes) THEN best_match
    ELSE BestKept(nodes, path, n, best_match, best_match_len,
                  MatchLen(nodes[n].json_path, path))

Selected(g, n) ==
    IF n = 0 THEN [g |-> g, ret |-> FALSE]
    ELSE [g |-> [g EXCEPT !.selected_node = Some(g.nodes[n].id)], ret |-> TRUE]

ClosestSelected(g, path, exact) ==
    IF exact # 0 THEN Selected(g, exact)
    ELSE Selected(g, BestMatch(g.nodes, path, 1, 0, 0))

select_by_path(g, path) == ClosestSelected(g, path, ExactMatch(g.nodes, path, 1))

----------------------------------------------------------------------------
(* App::update                                                             *)

\* The editor operation a pending edit asks for.
ApplyEdit(e, edit) ==
    CASE edit.kind = "Update" -> update_value_at_path(e, edit.json_path, edit.new_value)
      [] edit.kind = "Delete" -> delete_value_at_path(e, edit.json_path)
      [] edit.kind = "Add" -> add_value_at_path(e, edit.json_path, edit.key, edit.value)
      [] OTHER -> rename_key_at_path(e, edit.json_path, edit.old_key, edit.new_key)

\* The result of a dispatch that rebuilt the graph.
Rebuilt(e, built) == [e |-> e, g |-> built.g, ret |-> TRUE, panic |-> built.panic]

\* The dispatch once the editor operation returned r.
Dispatched(taken, r) ==
    IF r.panic THEN [e |-> r.e, g |-> taken, ret |-> FALSE, panic |-> TRUE]
    ELSE IF r.ret /\ IsSome(r.e.parsed_value)
    THEN Rebuilt(r.e, build_from_json(taken, Unwrap(r.e.parsed_value)))
    ELSE [e |-> r.e, g |-> taken, ret |-> r.ret, panic |-> FALSE]

\* A slip: the pending edit is handed out and left in place.
take_keeps_pending(g) == [g |-> g, ret |-> g.pending_edit]

\* take_pending_edit: self.pending_edit.take()
take_pending_edit(g) == [g |-> [g EXCEPT !.pending_edit = None], ret |-> g.pending_edit]

\* The dispatch of what take_pending_edit handed out.
Taken(e, t) ==
    IF ~IsSome(t.ret) THEN [e |-> e, g |-> t.g, ret |-> FALSE, panic |-> FALSE]
    ELSE Dispatched(t.g, ApplyEdit(e, Unwrap(t.ret)))

\* After json_graph.ui(): take the pending edit, apply it to the editor and
\* on success rebuild the graph from the new value.
app_dispatch(e, g) == Taken(e, take_pending_edit(g))

\* get_selected_path: the path of the selected node, if it is in the list.
SelectedPathAt(g, n) == IF n = 0 THEN None ELSE Some(g.nodes[n].json_path)

get_selected_path(g) ==
    IF ~IsSome(g.selected_node) THEN None
    ELSE SelectedPathAt(g, NodeIndex(g, Unwrap(g.selected_node)))

\* The end of App::update: when the graph reported a change of selection,
\* the editor is asked to scroll to the line of the selected node.
ScrolledTo(e, line) == IF IsSome(line) THEN scroll_to_line(e, Unwrap(line)) ELSE e

SyncedTo(e, path) ==
    IF IsSome(path) THEN ScrolledTo(e, find_line_for_path(e, Unwrap(path))) ELSE e

sync_selection(e, g, selection_changed) ==
    IF selection_changed THEN SyncedTo(e, get_selected_path(g)) ELSE e

\* The editor's part of a frame, the text editor rendered, and the sync at
\* its end.
frame_editor(e, g, selection_changed) ==
    sync_selection(render_scroll(e), g, selection_changed)

\* After json_editor.ui() reported a change: rebuild from the value, or
\* clear the graph when the text is not JSON.
app_sync(e, g) ==
    IF is_valid(e) THEN build_from_json(g, Unwrap(e.parsed_value))
    ELSE build_from_json(g, JNull)

----------------------------------------------------------------------------
(* The state                                                               *)

VARIABLES
    text,            \* JsonEditor::text
    previous_text,   \* JsonEditor::previous_text
    parsed_value,    \* JsonEditor::parsed_value
    error_message,   \* JsonEditor::error_message
    pretty_print,    \* JsonEditor::pretty_print
    undo_stack,      \* JsonEditor::undo_stack
    redo_stack,      \* JsonEditor::redo_stack
    target_line,     \* JsonEditor::target_line
    clicked_line,    \* JsonEditor::clicked_line
    view_mode,       \* JsonEditor::view_mode
    panicked,        \* a call has panicked: the thread has unwound
    last,            \* the last call: its name, arguments and result
    pre,             \* the editor as it was when the last call began
    nops,            \* the number of calls made
    run,             \* the texts pushed and restored by a run of edits and undos
    graph,           \* App::json_graph
    graph_initialized,  \* App::graph_initialized
    pre_graph        \* the graph as it was when the last call began

vars == << text, previous_text, parsed_value, error_message, pretty_print,
           undo_stack, redo_stack, target_line, clicked_line, view_mode,
           panicked, last, pre, nops, run,
           graph, graph_initialized, pre_graph >>

\* The graph side of the application, left alone by a call on the editor.
graph_vars == << graph, graph_initialized, pre_graph >>

Ed ==
    [text |-> text, previous_text |-> previous_text, parsed_value |-> parsed_value,
     error_message |-> error_message, pretty_print |-> pretty_print,
     undo_stack |-> undo_stack, redo_stack |-> redo_stack,
     target_line |-> target_line, clicked_line |-> clicked_line,
     view_mode |-> view_mode]

Install(e) ==
    /\ text' = e.text
    /\ previous_text' = e.previous_text
    /\ parsed_value' = e.parsed_value
    /\ error_message' = e.error_message
    /\ pretty_print' = e.pretty_print
    /\ undo_stack' = e.undo_stack
    /\ redo_stack' = e.redo_stack
    /\ target_line' = e.target_line
    /\ clicked_line' = e.clicked_line
    /\ view_mode' = e.view_mode

NoArgs == [path |-> <<>>, key |-> <<>>, new_key |-> <<>>, str |-> <<>>]

\* A call of operation op that came back as r.
Call(op, r, args) ==
    /\ ~panicked
    /\ Install(r.e)
    /\ panicked' = r.panic
    /\ last' = [op |-> op, ret |-> r.ret, args |-> args]
    /\ pre' = Ed

\* The state in which the editor is e, constructed from text t.
ConstructedAs(t, e) ==
    /\ text = e.text
    /\ previous_text = e.previous_text
    /\ parsed_value = e.parsed_value
    /\ error_message = e.error_message
    /\ pretty_print = e.pretty_print
    /\ undo_stack = e.undo_stack
    /\ redo_stack = e.redo_stack
    /\ target_line = e.target_line
    /\ clicked_line = e.clicked_line
    /\ view_mode = e.view_mode
    /\ panicked = FALSE
    /\ last = [op |-> "with_text", ret |-> TRUE, args |-> [NoArgs EXCEPT !.str = t]]
    /\ pre = e
    /\ nops = 0
    /\ run = [phase |-> "edit", pushed |-> <<>>, restored |-> <<>>]
    /\ graph = new_graph
    /\ graph_initialized = FALSE
    /\ pre_graph = new_graph

Constructed(t) == ConstructedAs(t, with_text(t))

----------------------------------------------------------------------------
(* The actions: one per operation of JsonEditor                            *)

SetText(t) == Call("set_text", set_text(Ed, t), [NoArgs EXCEPT !.str = t])

Undo == Call("undo", undo(Ed), NoArgs)

Redo == Call("redo", redo(Ed), NoArgs)

ApplyPrettyPrint ==
    Call("apply_pretty_print", Returned(apply_pretty_print(Ed), TRUE), NoArgs)

ApplyCompact == Call("apply_compact", Returned(apply_compact(Ed), TRUE), NoArgs)

TogglePrettyPrint ==
    Call("toggle_pretty_print", Returned(toggle_pretty_print(Ed), TRUE), NoArgs)

PrettyButton == Call("pretty_button", Returned(pretty_button(Ed), TRUE), NoArgs)

CompactButton == Call("compact_button", Returned(compact_button(Ed), TRUE), NoArgs)

\* A keystroke in the text editor: the widget reports a change.
TextChanged(raw) ==
    /\ raw # text
    /\ Call("text_changed", Returned(text_changed(Ed, raw), TRUE),
            [NoArgs EXCEPT !.str = raw])

UpdateValueAtPath(path, str) ==
    Call("update", update_value_at_path(Ed, path, str),
         [NoArgs EXCEPT !.path = path, !.str = str])

DeleteValueAtPath(path) ==
    Call("delete", delete_value_at_path(Ed, path), [NoArgs EXCEPT !.path = path])

AddValueAtPath(path, key, str) ==
    Call("add", add_value_at_path(Ed, path, key, str),
         [NoArgs EXCEPT !.path = path, !.key = key, !.str = str])

RenameKeyAtPath(path, old_key, new_key) ==
    Call("rename", rename_key_at_path(Ed, path, old_key, new_key),
         [NoArgs EXCEPT !.path = path, !.key = old_key, !.new_key = new_key])

----------------------------------------------------------------------------
(* Inputs                                                                  *)

\* {"a":[1]}
DocA == << "{", QUOTE, "a", QUOTE, ":", "[", "1", "]", "}" >>
\* {  (not JSON)
DocBad == << "{" >>
\* [1,2,3]
DocArr == << "[", "1", ",", "2", ",", "3", "]" >>
\* {"k":"v"}
DocK == << "{", QUOTE, "k", QUOTE, ":", QUOTE, "v", QUOTE, "}" >>
\* {"a":{"b":[true,null]},"k":[1,2.5]}
DocNested ==
    << "{", QUOTE, "a", QUOTE, ":", "{", QUOTE, "b", QUOTE, ":", "[" >> \o LitTrue \o
    << "," >> \o LitNull \o << "]", "}", ",", QUOTE, "k", QUOTE, ":", "[", "1", ",",
       "2", ".", "5", "]", "}" >>
\* 7
DocPrim == << "7" >>

Seg(c) == << c >>

\* "e" followed by the combining accent (as typed), and the same text with
\* the precomposed letter: both are the JSON string of that one letter.
TypedDecomposed == << QUOTE, "e", ACUTE, QUOTE >>
TypedComposed == << QUOTE, Composed("e"), QUOTE >>

----------------------------------------------------------------------------
(* Spec: an edit session, every operation in any order                     *)

\* The length of a session.
MaxOps == 4

SessionTexts == { DocA, DocBad }
SessionTyped == { TypedDecomposed, TypedComposed }
PathA0 == << Seg("a"), Seg("0") >>
PathA1 == << Seg("a"), Seg("1") >>
Two == << "2" >>

Init == \E t \in SessionTexts : Constructed(t)

Step ==
    \/ \E t \in SessionTexts : SetText(t)
    \/ \E raw \in SessionTyped : TextChanged(raw)
    \/ Undo
    \/ Redo
    \/ ApplyPrettyPrint
    \/ ApplyCompact
    \/ TogglePrettyPrint
    \/ PrettyButton
    \/ CompactButton
    \/ \E path \in { PathA0, PathA1 }, str \in { Two, << QUOTE >> } :
          UpdateValueAtPath(path, str)
    \/ \E path \in { PathA0, << Seg("z") >>, <<>> } : DeleteValueAtPath(path)
    \/ \E a \in { << <<>>, Seg("b") >>, << <<>>, <<>> >>, << PathA0, Seg("b") >> } :
          AddValueAtPath(a[1], a[2], Two)
    \/ \E a \in { << <<>>, Seg("b") >>, << <<>>, Seg("a") >>, << << Seg("a") >>, Seg("b") >> } :
          RenameKeyAtPath(a[1], Seg("a"), a[2])

Next ==
    /\ nops < MaxOps
    /\ nops' = nops + 1
    /\ UNCHANGED << run, graph_vars >>
    /\ Step

Spec == Init /\ [][Next]_vars

----------------------------------------------------------------------------
(* HistorySpec: edits, undo and redo, in any order and without end         *)

HistoryTyped == { TypedDecomposed, TypedComposed, DocA }

HistoryNext ==
    /\ UNCHANGED << nops, run, graph_vars >>
    /\ \/ \E t \in SessionTexts : SetText(t)
       \/ \E raw \in HistoryTyped : TextChanged(raw)
       \/ Undo
       \/ Redo
       \/ PrettyButton
       \/ UpdateValueAtPath(PathA0, Two)

HistorySpec == Init /\ [][HistoryNext]_vars

----------------------------------------------------------------------------
(* RunSpec: a fresh editor, a run of set_text calls, then undo until it    *)
(* returns false                                                           *)

\* The longest run of edits.
MaxEdits == 4

RunTexts == { DocA, DocBad, DocArr }

RunEdit(t) ==
    /\ run.phase = "edit"
    /\ Len(run.pushed) < MaxEdits
    /\ SetText(t)
    /\ run' = [run EXCEPT !.pushed = Append(@, text)]

RunUndo ==
    /\ run.phase \in { "edit", "undo" }
    /\ Undo
    /\ run' = IF undo(Ed).ret
              THEN [run EXCEPT !.phase = "undo", !.restored = Append(@, undo(Ed).e.text)]
              ELSE [run EXCEPT !.phase = "done"]

RunNext ==
    /\ UNCHANGED << nops, graph_vars >>
    /\ \/ \E t \in RunTexts : RunEdit(t)
       \/ RunUndo

RunSpec == Init /\ [][RunNext]_vars

----------------------------------------------------------------------------
(* PathSpec: a document, and one mutation at a path applied to it          *)

PathDocs == { DocA, DocBad, DocArr, DocK, DocNested, DocPrim }

PathKeys == { <<>>, Seg("a"), Seg("k"), Seg("b") }

\* Segments: keys, indices in and out of range, "+1", "01", "-1", "x".
Paths ==
    { <<>>,
      << Seg("a") >>, << Seg("k") >>, << Seg("x") >>,
      << Seg("1") >>, << Seg("3") >>, << << "+", "1" >> >>, << << "0", "1" >> >>,
      << << "-", "1" >> >>, << <<>> >>,
      PathA0,
      << Seg("a"), Seg("b") >>,
      << Seg("a"), Seg("b"), Seg("0") >>,
      << Seg("a"), Seg("b"), Seg("1") >>,
      << Seg("a"), Seg("b"), Seg("2") >>,
      << Seg("k"), Seg("1") >>,
      << Seg("k"), Seg("1"), Seg("0") >> }

\* Value texts: "2" (quoted), truE, Null, inf, 2.5
QuotedTwo == << QUOTE, "2", QUOTE >>
MixedTrue == << "t", "r", "u", "E" >>
MixedNull == << "N", "u", "l", "l" >>
TextInf == << "i", "n", "f" >>
TextFrac == << "2", ".", "5" >>

\* 2, a lone quote, "x", true, x, and the texts above
PathValues ==
    { Two, << QUOTE >>, << QUOTE, "x", QUOTE >>, LitTrue, << "x" >>,
      QuotedTwo, MixedTrue, MixedNull, TextInf, TextFrac, LitNull, LitFalse }

PathInit == \E t \in PathDocs : Constructed(t)

PathNext ==
    /\ nops = 0
    /\ nops' = nops + 1
    /\ UNCHANGED << run, graph_vars >>
    /\ \/ \E path \in Paths, str \in PathValues : UpdateValueAtPath(path, str)
       \/ \E path \in Paths : DeleteValueAtPath(path)
       \/ \E path \in Paths, key \in PathKeys, str \in PathValues :
             AddValueAtPath(path, key, str)
       \/ \E path \in Paths, old_key \in PathKeys, new_key \in PathKeys :
             RenameKeyAtPath(path, old_key, new_key)

PathSpec == PathInit /\ [][PathNext]_vars

----------------------------------------------------------------------------
(* GraphSpec: the application, a document in the editor and the graph      *)
(* built from it, edited through the text and through the cells            *)

\* A step of the application: the editor after it (r), the graph after it
\* (g), and what was asked.
GraphCall(op, e, r, g, args) ==
    /\ ~panicked
    /\ Install(e)
    /\ graph' = g.g
    /\ panicked' = (r.panic \/ g.panic)
    /\ last' = [op |-> op, ret |-> r.ret, args |-> args]
    /\ pre' = Ed
    /\ pre_graph' = graph

\* A frame of App::update: the editor is rendered, the event acts on the
\* editor (r) and on the graph (g), and the selection is synced when the
\* graph reported it changed.
GraphFrame(op, r, g, args, selection_changed) ==
    GraphCall(op, frame_editor(r.e, g.g, selection_changed), r, g, args)

\* A frame in which the graph reports no change of selection.
GraphStep(op, r, g, args) == GraphFrame(op, r, g, args, FALSE)

\* The first frame with a valid document builds the graph.
FirstFrame ==
    /\ ~graph_initialized
    /\ is_valid(Ed)
    /\ graph_initialized' = TRUE
    /\ GraphStep("first_frame", Returned(Ed, TRUE),
                 build_from_json(graph, Unwrap(parsed_value)), NoArgs)

\* The frame after the editor became e by typing raw.
EditorChanged(raw, e) ==
    /\ graph_initialized' = (graph_initialized \/ is_valid(e))
    /\ GraphStep("text_changed", Returned(e, TRUE),
                 app_sync(e, graph), [NoArgs EXCEPT !.str = raw])

\* A keystroke in the text editor, and the rebuild that follows the change.
GraphTextChanged(raw) ==
    /\ raw # text
    /\ EditorChanged(raw, text_changed(Ed, raw))

\* A click on the value of a primitive row: the edit dialog opens.
ClickEditCell(n, r) ==
    /\ RowVisible(graph.nodes[n], r)
    /\ ~RowsOf(graph.nodes[n])[r].is_reference
    /\ UNCHANGED graph_initialized
    /\ GraphStep("click_edit_cell", Returned(Ed, TRUE),
                 [g |-> click_edit_cell(graph, n, r), panic |-> FALSE],
                 [NoArgs EXCEPT !.path = graph.nodes[n].json_path,
                                !.key = RowKey(graph.nodes[n], r)])

\* A frame whose click left a pending edit: the state after the dispatch d.
Dispatch(op, d, args, selection_changed) ==
    GraphFrame(op, [e |-> d.e, ret |-> d.ret, panic |-> FALSE],
               [g |-> d.g, panic |-> d.panic], args, selection_changed)

Saved(saved) ==
    Dispatch("save_edit", app_dispatch(Ed, saved),
             IF IsSome(saved.pending_edit)
             THEN [NoArgs EXCEPT !.path = Unwrap(saved.pending_edit).json_path,
                                 !.str = Unwrap(saved.pending_edit).new_value]
             ELSE NoArgs,
             IsSome(saved.pending_edit))

\* Save in the edit dialog, and the dispatch of the pending edit.
SaveEdit ==
    /\ IsSome(graph.editing_cell)
    /\ UNCHANGED graph_initialized
    /\ Saved(save_edit(graph))

\* A click on the delete button of a row, and the dispatch of the delete.
ClickDeleteRow(n, r) ==
    /\ RowVisible(graph.nodes[n], r)
    /\ UNCHANGED graph_initialized
    /\ Dispatch("delete_row", app_dispatch(Ed, click_delete_row(graph, n, r)),
                [NoArgs EXCEPT !.path =
                    Append(graph.nodes[n].json_path, RowKey(graph.nodes[n], r))],
                TRUE)

\* A click on a node: it becomes the selection.
ClickNode(n) ==
    /\ UNCHANGED graph_initialized
    /\ GraphFrame("click_node", Returned(Ed, TRUE),
                  [g |-> click_node(graph, n), panic |-> FALSE],
                  [NoArgs EXCEPT !.path = graph.nodes[n].json_path], TRUE)

\* The number of frames with an event.
MaxFrames == 3

RECURSIVE Repeat(_, _)
Repeat(c, n) == IF n = 0 THEN <<>> ELSE << c >> \o Repeat(c, n - 1)

\* "x"
DocStr == << QUOTE, "x", QUOTE >>
\* {"k":"aaa...a"} with 31 letters
DocLong == << "{", QUOTE, "k", QUOTE, ":", QUOTE >> \o Repeat("a", 31) \o << QUOTE, "}" >>
\* ["aaa...a" of 29 letters, then the two-byte letter U+00E9, then "aa"]
DocSplit ==
    << "[", QUOTE >> \o Repeat("a", 29) \o << "U+00E9", "a", "a", QUOTE, "]" >>
\* [[[1],[2]],[[3]],7]
DocDeep ==
    << "[", "[", "[", "1", "]", ",", "[", "2", "]", "]", ",",
       "[", "[", "3", "]", "]", ",", "7", "]" >>
\* {"u":{"n":"a"}}
DocUser ==
    << "{", QUOTE, "u", QUOTE, ":", "{", QUOTE, "n", QUOTE, ":", QUOTE, "a", QUOTE,
       "}", "}" >>
\* {"a":{"b":{"c":[],"k":[]}}}
DocChain ==
    << "{", QUOTE, "a", QUOTE, ":", "{", QUOTE, "b", QUOTE, ":", "{", QUOTE, "c", QUOTE,
       ":", "[", "]", ",", QUOTE, "k", QUOTE, ":", "[", "]", "}", "}", "}" >>
\* {"a":1,"b":2.5,"e":true,"f":null,"k":"v","n":"2"}
DocCells ==
    << "{", QUOTE, "a", QUOTE, ":", "1", ",", QUOTE, "b", QUOTE, ":", "2", ".", "5", ",",
       QUOTE, "e", QUOTE, ":" >> \o LitTrue \o << ",", QUOTE, "f", QUOTE, ":" >> \o
    LitNull \o << ",", QUOTE, "k", QUOTE, ":", QUOTE, "v", QUOTE, ",",
       QUOTE, "n", QUOTE, ":", QUOTE, "2", QUOTE, "}" >>

GraphDocs == { DocArr, DocNested, DocPrim, DocLong, DocSplit, DocDeep, DocCells }

GraphTyped == { DocNested, DocBad }

GraphInit == \E t \in GraphDocs : Constructed(t)

GraphNext ==
    /\ nops < MaxFrames
    /\ nops' = nops + 1
    /\ UNCHANGED run
    /\ \/ FirstFrame
       \/ \E raw \in GraphTyped : GraphTextChanged(raw)
       \/ \E n \in 1..Len(graph.nodes), r \in 1..10 : ClickEditCell(n, r)
       \/ SaveEdit
       \/ \E n \in 1..Len(graph.nodes), r \in 1..10 : ClickDeleteRow(n, r)
       \/ \E n \in 1..Len(graph.nodes) : ClickNode(n)

GraphSpec == GraphInit /\ [][GraphNext]_vars

----------------------------------------------------------------------------
(* BuildSpec: a graph, build_from_json called on it with any value, and    *)
(* clicks on what was built                                                *)

\* Values as json!(...) writes them: an Array of items, an Object of pairs.
Arr(items) == JArray([i \in 1..Len(items) |-> Entry(<<>>, items[i])])

RECURSIVE Entries(_)
Entries(pairs) ==
    IF pairs = <<>> THEN <<>>
    ELSE MapInsert(Entries(SubSeq(pairs, 1, Len(pairs) - 1)),
                   pairs[Len(pairs)][1], pairs[Len(pairs)][2])

Obj(pairs) == JObject(Entries(pairs))

ValA == Obj(<< << Seg("a"), Arr(<< JInt(1) >>) >> >>)
ValArr == Arr(<< JInt(1), JInt(2), JInt(3) >>)
ValK == Obj(<< << Seg("k"), JString(Seg("v")) >> >>)
ValNested ==
    Obj(<< << Seg("a"), Obj(<< << Seg("b"), Arr(<< JBool(TRUE), JNull >>) >> >>) >>,
           << Seg("k"), Arr(<< JInt(1), JFloat(FALSE, 25, 1) >>) >> >>)
ValLong == Obj(<< << Seg("k"), JString(Repeat("a", 31)) >> >>)
ValSplit == Arr(<< JString(Repeat("a", 29) \o << "U+00E9", "a", "a" >>) >>)
ValDeep ==
    Arr(<< Arr(<< Arr(<< JInt(1) >>), Arr(<< JInt(2) >>) >>),
           Arr(<< Arr(<< JInt(3) >>) >>),
           JInt(7) >>)
ValUser == Obj(<< << Seg("u"), Obj(<< << Seg("n"), JString(Seg("a")) >> >>) >> >>)
ValChain ==
    Obj(<< << Seg("a"),
              Obj(<< << Seg("b"),
                        Obj(<< << Seg("c"), Arr(<<>>) >>, << Seg("k"), Arr(<<>>) >> >>) >> >>)
           >> >>)
ValCells ==
    Obj(<< << Seg("a"), JInt(1) >>, << Seg("b"), JFloat(FALSE, 25, 1) >>,
           << Seg("e"), JBool(TRUE) >>, << Seg("f"), JNull >>,
           << Seg("k"), JString(Seg("v")) >>, << Seg("n"), JString(Seg("2")) >> >>)

\* The values to build from, each with the text it is written as.
BuildInputs ==
    { [t |-> DocA, value |-> ValA], [t |-> DocArr, value |-> ValArr],
      [t |-> DocK, value |-> ValK], [t |-> DocNested, value |-> ValNested],
      [t |-> DocPrim, value |-> JInt(7)], [t |-> DocStr, value |-> JString(Seg("x"))],
      [t |-> LitNull, value |-> JNull], [t |-> LitTrue, value |-> JBool(TRUE)],
      [t |-> DocLong, value |-> ValLong], [t |-> DocSplit, value |-> ValSplit],
      [t |-> DocDeep, value |-> ValDeep], [t |-> DocUser, value |-> ValUser],
      [t |-> DocChain, value |-> ValChain],
      [t |-> DocCells, value |-> ValCells] }

\* build_from_json(value)
BuildFromJson(in) ==
    /\ UNCHANGED graph_initialized
    /\ GraphCall("build_from_json", Ed, Returned(Ed, TRUE),
                 build_from_json(graph, in.value), [NoArgs EXCEPT !.str = in.t])

\* select_by_path(path)
SelectDone(path, r) ==
    /\ UNCHANGED graph_initialized
    /\ GraphCall("select_by_path", Ed, Returned(Ed, r.ret), [g |-> r.g, panic |-> FALSE],
                 [NoArgs EXCEPT !.path = path])

SelectByPath(path) == SelectDone(path, select_by_path(graph, path))

SelectPaths ==
    { <<>>, << Seg("a") >>, << Seg("a"), Seg("b"), Seg("x") >>, << Seg("x") >>,
      << Seg("a"), Seg("b"), Seg("k") >>, << Seg("0"), Seg("1"), Seg("0") >> }

BuildInit == Constructed(DocA)

BuildNext ==
    /\ UNCHANGED << nops, run >>
    /\ \/ \E in \in BuildInputs : BuildFromJson(in)
       \/ \E n \in 1..Len(graph.nodes), r \in 1..10 : ClickEditCell(n, r)
       \/ \E n \in 1..Len(graph.nodes) : ClickNode(n)
       \/ \E path \in SelectPaths : SelectByPath(path)

BuildSpec == BuildInit /\ [][BuildNext]_vars

----------------------------------------------------------------------------
(* DialogSpec: the application with its graph, the three dialogs and the   *)
(* context menu; every frame is one event of the user, the dispatch of the *)
(* pending edit included                                                   *)

\* A frame whose event leaves the graph as g and no pending edit.
GraphEvent(op, g, args) ==
    /\ UNCHANGED graph_initialized
    /\ GraphStep(op, Returned(Ed, TRUE), [g |-> g, panic |-> FALSE], args)

\* A frame whose event leaves the graph as g, and the dispatch of what it
\* left pending.
Pended(op, g) ==
    /\ UNCHANGED graph_initialized
    /\ Dispatch(op, app_dispatch(Ed, g),
                IF IsSome(g.pending_edit)
                THEN [path |-> Unwrap(g.pending_edit).json_path,
                      key |-> Unwrap(g.pending_edit).key \o Unwrap(g.pending_edit).old_key,
                      new_key |-> Unwrap(g.pending_edit).new_key,
                      str |-> Unwrap(g.pending_edit).value]
                ELSE NoArgs,
                IsSome(g.pending_edit))

\* A click on the add button of a node: the add dialog opens.
ClickAddRow(n) ==
    /\ AddButtonInside(graph.nodes[n])
    /\ GraphEvent("click_add_row", click_add_row(graph, n),
                  [NoArgs EXCEPT !.path = graph.nodes[n].json_path])

\* A click on the key of a row of an Object: the rename dialog opens.
ClickRenameKey(n, r) ==
    /\ RowVisible(graph.nodes[n], r)
    /\ graph.nodes[n].content.kind = "Object"
    /\ GraphEvent("click_rename_key", click_rename_key(graph, n, r),
                  [NoArgs EXCEPT !.path = graph.nodes[n].json_path,
                                 !.key = RowKey(graph.nodes[n], r)])

\* The user's typing in the fields of an open dialog.
TypeEdit(str) ==
    /\ IsSome(graph.editing_cell)
    /\ GraphEvent("type_edit", type_edit(graph, str), [NoArgs EXCEPT !.str = str])

TypeAdd(in) ==
    /\ IsSome(graph.adding_state)
    /\ GraphEvent("type_add", type_add(graph, in.key, in.value, in.value_type),
                  [NoArgs EXCEPT !.key = in.key, !.str = in.value])

TypeRename(new_key) ==
    /\ IsSome(graph.renaming_key)
    /\ GraphEvent("type_rename", type_rename(graph, new_key),
                  [NoArgs EXCEPT !.new_key = new_key])

\* Cancel in a dialog.
CancelEdit ==
    /\ IsSome(graph.editing_cell)
    /\ GraphEvent("cancel_edit", cancel_edit(graph), NoArgs)

CancelAdd ==
    /\ IsSome(graph.adding_state)
    /\ GraphEvent("cancel_add", cancel_add(graph), NoArgs)

CancelRename ==
    /\ IsSome(graph.renaming_key)
    /\ GraphEvent("cancel_rename", cancel_rename(graph), NoArgs)

\* Add in the add dialog, Rename in the rename dialog.
SaveAdd ==
    /\ IsSome(graph.adding_state)
    /\ Pended("save_add", save_add(graph))

SaveRename ==
    /\ IsSome(graph.renaming_key)
    /\ Pended("save_rename", save_rename(graph))

\* A right click on a row (r > 0) or on the add button (r = 0) of a node.
OpenContextMenu(n, r) ==
    /\ \/ RowVisible(graph.nodes[n], r)
       \/ r = 0 /\ AddButtonInside(graph.nodes[n])
    /\ GraphEvent("open_context_menu", open_context_menu(graph, n, r),
                  [NoArgs EXCEPT !.path = graph.nodes[n].json_path])

\* The entries of the context menu.
MenuEditValue ==
    /\ IsSome(graph.context_menu)
    /\ IsSome(Unwrap(graph.context_menu).row_key)
    /\ Unwrap(graph.context_menu).is_primitive
    /\ GraphEvent("menu_edit_value", menu_edit_value(graph), NoArgs)

MenuRenameKey ==
    /\ IsSome(graph.context_menu)
    /\ IsSome(Unwrap(graph.context_menu).row_key)
    /\ Unwrap(graph.context_menu).is_object
    /\ GraphEvent("menu_rename_key", menu_rename_key(graph), NoArgs)

MenuDelete ==
    /\ IsSome(graph.context_menu)
    /\ IsSome(Unwrap(graph.context_menu).row_key)
    /\ Pended("menu_delete", menu_delete(graph))

MenuAdd ==
    /\ IsSome(graph.context_menu)
    /\ ~IsSome(Unwrap(graph.context_menu).row_key)
    /\ GraphEvent("menu_add", menu_add(graph), NoArgs)

MenuCancel ==
    /\ IsSome(graph.context_menu)
    /\ GraphEvent("menu_cancel", menu_cancel(graph), NoArgs)

\* The number of events of the user after the first frame.
MaxEvents == 3

\* {"k":"v","n":1,"s":[true,null]}
DocMix ==
    << "{", QUOTE, "k", QUOTE, ":", QUOTE, "v", QUOTE, ",", QUOTE, "n", QUOTE, ":", "1",
       ",", QUOTE, "s", QUOTE, ":", "[" >> \o LitTrue \o << "," >> \o LitNull \o
    << "]", "}" >>

DialogDocs == { DocMix }

EditTyped == { Seg("y"), Seg("2"), << "N", "u", "l", "l" >>, LitTrue }

AddTyped ==
    { [key |-> Seg("x"), value |-> Seg("2"), value_type |-> "Number"],
      [key |-> <<>>, value |-> Seg("2"), value_type |-> "Number"],
      [key |-> Seg("x"), value |-> Seg("y"), value_type |-> "Number"],
      [key |-> Seg("x"), value |-> Seg("y"), value_type |-> "String"],
      [key |-> Seg("x"), value |-> Seg("y"), value_type |-> "Boolean"],
      [key |-> Seg("x"), value |-> Seg("y"), value_type |-> "Null"],
      [key |-> Seg("n"), value |-> Seg("2"), value_type |-> "Number"],
      [key |-> Seg("x"), value |-> LitTrue, value_type |-> "Boolean"] }

RenameTyped == { <<>>, Seg("x"), Seg("n"), Seg("k") }

DialogInit == \E t \in DialogDocs : Constructed(t)

\* Texts typed over the document in the text editor: null, and invalid text.
DialogRetyped == { LitNull, DocBad }

DialogNext ==
    /\ UNCHANGED run
    /\ \/ UNCHANGED nops /\ FirstFrame
       \/ /\ nops < MaxEvents
          /\ nops' = nops + 1
          /\ \/ \E n \in 1..Len(graph.nodes), r \in 1..10 : ClickEditCell(n, r)
             \/ \E n \in 1..Len(graph.nodes) : ClickAddRow(n)
             \/ \E n \in 1..Len(graph.nodes), r \in 1..10 : ClickRenameKey(n, r)
             \/ \E n \in 1..Len(graph.nodes), r \in 1..10 : ClickDeleteRow(n, r)
             \/ \E n \in 1..Len(graph.nodes) : ClickNode(n)
             \/ \E str \in EditTyped : TypeEdit(str)
             \/ \E in \in AddTyped : TypeAdd(in)
             \/ \E new_key \in RenameTyped : TypeRename(new_key)
             \/ CancelEdit
             \/ CancelAdd
             \/ CancelRename
             \/ SaveEdit
             \/ SaveAdd
             \/ SaveRename
             \/ \E n \in 1..Len(graph.nodes), r \in 0..10 : OpenContextMenu(n, r)
             \/ MenuEditValue
             \/ MenuRenameKey
             \/ MenuDelete
             \/ MenuAdd
             \/ MenuCancel
             \/ \E raw \in DialogRetyped : GraphTextChanged(raw)

DialogSpec == DialogInit /\ [][DialogNext]_vars

----------------------------------------------------------------------------
(* FormatSpec: a document, and the two formatters applied to it in any     *)
(* order, directly and through the buttons                                 *)

\* {"k":1,"a":{"n":2,"b":[]}}
DocUnsorted ==
    << "{", QUOTE, "k", QUOTE, ":", "1", ",", QUOTE, "a", QUOTE, ":", "{", QUOTE, "n",
       QUOTE, ":", "2", ",", QUOTE, "b", QUOTE, ":", "[", "]", "}", "}" >>
\* { "a" : [ 1 ,<newline><tab>2 ] } with a trailing newline
DocSpaced ==
    << "{", " ", QUOTE, "a", QUOTE, " ", ":", " ", "[", " ", "1", " ", ",", NL, TAB,
       "2", " ", "]", " ", "}", NL >>
\* ["a\"b\\","\n",""] : escapes in the strings
DocEscaped ==
    << "[", QUOTE, "a", BSLASH, QUOTE, "b", BSLASH, BSLASH, QUOTE, ",",
       QUOTE, BSLASH, "n", QUOTE, ",", QUOTE, QUOTE, "]" >>
\* [1.0,2.50,-3,{}]
DocNumbers ==
    << "[", "1", ".", "0", ",", "2", ".", "5", "0", ",", "-", "3", ",", "{", "}", "]" >>

FormatDocs ==
    { DocA, DocNested, DocCells, DocDeep, DocStr, DocPrim, DocUnsorted, DocSpaced,
      DocEscaped, DocNumbers, LitNull, DocBad }

FormatInit == \E t \in FormatDocs : Constructed(t)

FormatNext ==
    /\ UNCHANGED << nops, run, graph_vars >>
    /\ \/ ApplyPrettyPrint
       \/ ApplyCompact
       \/ TogglePrettyPrint
       \/ PrettyButton
       \/ CompactButton

FormatSpec == FormatInit /\ [][FormatNext]_vars

----------------------------------------------------------------------------
(* LineSpec: a text in the editor, and find_line_for_path called on it     *)

ValRepeat ==
    Obj(<< << Seg("a"), Obj(<< << Seg("k"), JInt(1) >> >>) >>,
           << Seg("k"), Obj(<< << Seg("a"), JInt(2) >> >>) >> >>)

\* {"ab":1,"a":2} over three lines, the longer key first
DocPrefixKey ==
    << "{", NL, QUOTE, "a", "b", QUOTE, ":", "1", ",", NL, QUOTE, "a", QUOTE, ":", "2",
       "}" >>

LineDocs ==
    { to_string_pretty(ValNested), to_string_pretty(ValChain), to_string_pretty(ValRepeat),
      to_string_pretty(ValArr), DocA, DocSpaced, DocPrefixKey, DocBad, << NL >>, <<>> }

LinePaths ==
    { <<>>, << Seg("a") >>, << Seg("a"), Seg("b") >>, << Seg("a"), Seg("b"), Seg("c") >>,
      << Seg("a"), Seg("b"), Seg("x") >>, << Seg("k") >>, << Seg("k"), Seg("a") >>,
      << Seg("k"), Seg("1") >>, << Seg("x") >>, << Seg("a"), Seg("a") >>,
      << Seg("b"), Seg("a") >>, << Seg("1") >>, << Seg("a"), Seg("k"), Seg("k") >> }

FindLineForPath(path) ==
    Call("find_line_for_path",
         [e |-> Ed, ret |-> find_line_for_path(Ed, path), panic |-> FALSE],
         [NoArgs EXCEPT !.path = path])

LineInit == \E t \in LineDocs : Constructed(t)

LineNext ==
    /\ UNCHANGED << nops, run, graph_vars >>
    /\ \E path \in LinePaths : FindLineForPath(path)

LineSpec == LineInit /\ [][LineNext]_vars

----------------------------------------------------------------------------
(* SyncSpec: the application, its frames with and without an event; the    *)
(* selection of the graph and the line of the editor follow each other     *)

\* A frame with no event.
IdleFrame ==
    /\ UNCHANGED graph_initialized
    /\ GraphStep("frame", Returned(Ed, TRUE), [g |-> graph, panic |-> FALSE], NoArgs)

\* The graph after the editor-to-graph sync found path for the clicked line.
LineSelected(g, path) == IF IsSome(path) THEN select_by_path(g, Unwrap(path)).g ELSE g

\* The frame once take_clicked_line handed out the line (t.ret).
LineTaken(i, t) ==
    /\ UNCHANGED graph_initialized
    /\ GraphStep("click_line", Returned(t.e, IsSome(t.ret)),
                 [g |-> IF IsSome(t.ret)
                        THEN LineSelected(graph, find_path_for_line(t.e, Unwrap(t.ret)))
                        ELSE graph,
                  panic |-> FALSE],
                 [NoArgs EXCEPT !.key = << i >>])

\* A click on the number of line i of the text editor, and the sync to the
\* graph that follows it in the same frame.
ClickLine(i) ==
    /\ view_mode = "Text"
    /\ i \in 1..Len(Lines(text))
    /\ LineTaken(i, take_clicked_line(click_line(Ed, i)))

\* A click on the view button of the toolbar.
ToggleViewMode ==
    /\ UNCHANGED graph_initialized
    /\ GraphStep("toggle_view_mode", Returned(toggle_view_mode(Ed), TRUE),
                 [g |-> graph, panic |-> FALSE], NoArgs)

\* The number of frames after the first.
MaxSyncFrames == 3

SyncDocs == { to_string_pretty(ValNested), DocA }

SyncInit == \E t \in SyncDocs : Constructed(t)

SyncNext ==
    /\ UNCHANGED run
    /\ \/ UNCHANGED nops /\ FirstFrame
       \/ /\ nops < MaxSyncFrames
          /\ nops' = nops + 1
          /\ \/ IdleFrame
             \/ \E i \in 1..12 : ClickLine(i)
             \/ ToggleViewMode
             \/ \E n \in 1..Len(graph.nodes) : ClickNode(n)
             \/ \E n \in 1..Len(graph.nodes), r \in 1..10 : ClickDeleteRow(n, r)

SyncSpec == SyncInit /\ [][SyncNext]_vars

----------------------------------------------------------------------------
(* What the claims speak of, stated without the editor's own navigation    *)

PathOpNames == { "update", "delete", "add", "rename" }

Min(a, b) == IF a < b THEN a ELSE b

\* A segment that is a base-10 index ("+" allowed in front), and its value.
IndexDigits(seg) == IF seg # <<>> /\ seg[1] = "+" THEN Tail(seg) ELSE seg

SegIsIndex(seg) ==
    /\ IndexDigits(seg) # <<>>
    /\ \A i \in 1..Len(IndexDigits(seg)) : IsDigit(IndexDigits(seg)[i])

SegIndex(seg) ==
    CHOOSE n \in 0..(Pow10(Len(IndexDigits(seg))) - 1) :
        PadDigits(n, Len(IndexDigits(seg))) = IndexDigits(seg)

\* The position of the child of v that segment seg addresses, or 0.
ChildPos(v, seg) ==
    CASE v.t = "object" ->
            IF \E i \in 1..Len(v.kids) : v.kids[i].k = seg
            THEN CHOOSE i \in 1..Len(v.kids) : v.kids[i].k = seg
            ELSE 0
      [] v.t = "array" ->
            IF SegIsIndex(seg) /\ SegIndex(seg) < Len(v.kids) THEN SegIndex(seg) + 1 ELSE 0
      [] OTHER -> 0

\* The sub-value a path addresses (resolving each segment in turn), or None.
RECURSIVE Lookup(_, _)
Lookup(v, path) ==
    IF path = <<>> THEN Some(v)
    ELSE IF ChildPos(v, Head(path)) = 0 THEN None
    ELSE Lookup(v.kids[ChildPos(v, Head(path))].v, Tail(path))

\* v with the sub-value at a resolving path replaced by c, all else as it was.
RECURSIVE Replaced(_, _, _)
Replaced(v, path, c) ==
    IF path = <<>> THEN c
    ELSE [v EXCEPT !.kids =
            [i \in 1..Len(v.kids) |->
                IF i = ChildPos(v, Head(path))
                THEN Entry(v.kids[i].k, Replaced(v.kids[i].v, Tail(path), c))
                ELSE v.kids[i]]]

\* The children of a container without the one at position p.
Without(kids, p) ==
    [i \in 1..(Len(kids) - 1) |-> IF i < p THEN kids[i] ELSE kids[i + 1]]

SameDocument(e, f) ==
    /\ e.text = f.text
    /\ e.parsed_value = f.parsed_value
    /\ e.error_message = f.error_message
    /\ e.undo_stack = f.undo_stack
    /\ e.redo_stack = f.redo_stack

----------------------------------------------------------------------------
(* The claims                                                              *)

\* C1: in every state of a session, parsed_value is Some exactly when the
\* current text parses as JSON, and error_message is Some exactly when
\* parsed_value is None.
C1_ParsedIffTextIsJson ==
    /\ IsSome(parsed_value) <=> IsSome(Parse(text))
    /\ IsSome(error_message) <=> ~IsSome(parsed_value)

\* C1 witness: apply_compact has rewritten the text of a valid document
\* (it installs the text without validating it again).
C1_Witness ==
    /\ last.op = "apply_compact"
    /\ text # pre.text
    /\ IsSome(parsed_value)

\* C2: the undo stack and the redo stack never hold more than max_history
\* entries, whatever edits, undos and redos came before.
C2_StacksBounded ==
    /\ Len(undo_stack) <= max_history
    /\ Len(redo_stack) <= max_history

\* C2 witness: a redo (which pushes with no capacity check) has filled the
\* undo stack to capacity.
C2_Witness ==
    /\ last.op = "redo"
    /\ last.ret
    /\ Len(undo_stack) = max_history

\* C3: after a run of n set_text calls on a fresh editor, undo succeeds
\* exactly min(n, max_history) times, restoring the most recent pre-edit
\* texts newest first, and the next undo returns false.
C3_UndoRestoresNewestFirst ==
    run.phase = "done" =>
        LET n == Len(run.pushed)
            k == Min(n, max_history)
        IN  /\ last.op = "undo" /\ ~last.ret
            /\ Len(run.restored) = k
            /\ \A i \in 1..k : run.restored[i] = run.pushed[n - i + 1]

\* C3 witness: more edits than the capacity, all undone, and the texts
\* restored first and last differ.
C3_Witness ==
    /\ run.phase = "done"
    /\ Len(run.pushed) > max_history
    /\ run.restored[1] # run.restored[max_history]

\* C4: after set_text, a successful mutation at a path, or a keystroke that
\* changes the text, the redo stack is empty: can_redo is false and redo
\* returns false.
IsNewEdit ==
    \/ last.op = "set_text"
    \/ last.op \in PathOpNames /\ last.ret
    \/ last.op = "text_changed" /\ text # pre.text

IsMutation ==
    \/ last.op = "set_text"
    \/ last.op \in PathOpNames /\ last.ret
    \/ /\ last.op \in { "pretty_button", "compact_button", "apply_pretty_print",
                        "apply_compact", "toggle_pretty_print" }
       /\ text # pre.text

C5_UndoRestoresPriorText ==
    IsMutation =>
        /\ undo_stack # <<>>
        /\ undo_stack[Len(undo_stack)] = pre.text
        /\ undo(Ed).ret
        /\ undo(Ed).e.text = pre.text

\* C6: an undo with nothing to undo returns false and changes nothing; a
\* successful undo pops the newest snapshot into text and pushes the text it
\* replaced onto the redo stack, and a redo right after it gives back the
\* text and both stacks as they were; the same holds with undo and redo
\* exchanged.
C6_UndoRedoMirror ==
    /\ last.op = "undo" /\ ~last.ret => pre.undo_stack = <<>> /\ Ed = pre
    /\ last.op = "redo" /\ ~last.ret => pre.redo_stack = <<>> /\ Ed = pre
    /\ last.op = "undo" /\ last.ret =>
          /\ text = pre.undo_stack[Len(pre.undo_stack)]
          /\ undo_stack = SubSeq(pre.undo_stack, 1, Len(pre.undo_stack) - 1)
          /\ redo_stack = Append(pre.redo_stack, pre.text)
          /\ redo(Ed).ret
          /\ redo(Ed).e.text = pre.text
          /\ redo(Ed).e.undo_stack = pre.undo_stack
          /\ redo(Ed).e.redo_stack = pre.redo_stack
    /\ last.op = "redo" /\ last.ret =>
          /\ text = pre.redo_stack[Len(pre.redo_stack)]
          /\ redo_stack = SubSeq(pre.redo_stack, 1, Len(pre.redo_stack) - 1)
          /\ undo_stack = Append(pre.undo_stack, pre.text)
          /\ undo(Ed).ret
          /\ undo(Ed).e.text = pre.text
          /\ undo(Ed).e.undo_stack = pre.undo_stack
          /\ undo(Ed).e.redo_stack = pre.redo_stack

\* C6 witness: a successful undo that changes the text, taken when the redo
\* stack already holds an entry.
C6_Witness ==
    /\ last.op = "undo"
    /\ last.ret
    /\ pre.redo_stack # <<>>
    /\ text # pre.text

\* C7: when update, delete, add or rename returns false, the text, the
\* parsed value, the error message and both stacks are as before the call.
C7_RejectedLeavesAllUnchanged ==
    (last.op \in PathOpNames /\ ~last.ret /\ ~panicked) => SameDocument(Ed, pre)

\* C7 witness: a delete of the root is rejected on a valid document that has
\* entries on both stacks.
C7_Witness ==
    /\ last.op = "delete"
    /\ ~last.ret
    /\ IsSome(parsed_value)
    /\ undo_stack # <<>>
    /\ redo_stack # <<>>

\* What a mutation needs in order to apply (spec 4.1).
Applies ==
    IF ~IsSome(pre.parsed_value) THEN FALSE
    ELSE LET old == Unwrap(pre.parsed_value)
             path == last.args.path
             at == Lookup(old, path)
             parent == Lookup(old, SubSeq(path, 1, Len(path) - 1))
         IN  CASE last.op = "update" -> IsSome(at)
               [] last.op = "delete" ->
                     /\ path # <<>>
                     /\ IsSome(parent)
                     /\ Unwrap(parent).t \in { "object", "array" }
                     /\ ChildPos(Unwrap(parent), path[Len(path)]) # 0
               [] last.op = "add" ->
                     /\ IsSome(at)
                     /\ \/ Unwrap(at).t = "array"
                        \/ Unwrap(at).t = "object" /\ last.args.key # <<>>
               [] last.op = "rename" ->
                     /\ IsSome(at)
                     /\ Unwrap(at).t = "object"
                     /\ ChildPos(Unwrap(at), last.args.key) # 0
                     /\ \/ last.args.new_key = last.args.key
                        \/ ChildPos(Unwrap(at), last.args.new_key) = 0
               [] OTHER -> FALSE

\* C8: update, delete, add and rename always come back with a boolean and
\* never panic; a bad index, a missing key or a wrong container kind gives
\* false.
C8_MutationsNeverPanic ==
    last.op \in PathOpNames =>
        /\ ~panicked
        /\ last.ret \in BOOLEAN
        /\ ~Applies => ~last.ret

\* C9: on a valid document update returns true exactly when every segment
\* of the path resolves, and then the new value is the old one with the
\* addressed sub-value replaced by the coerced value, all else unchanged.
C9_UpdateIffPathResolves ==
    (last.op = "update" /\ IsSome(pre.parsed_value)) =>
        LET old == Unwrap(pre.parsed_value) IN
        /\ last.ret <=> IsSome(Lookup(old, last.args.path))
        /\ last.ret =>
              parsed_value = Some(Replaced(old, last.args.path, Coerce(last.args.str).v))

\* C10: delete returns false for the empty path; otherwise it succeeds
\* exactly when the parent resolves to an Object holding the last segment as
\* a key or to an Array with the last segment an index in bounds; then that
\* entry alone is removed and the later elements of an Array move down by
\* one.  Deleting ["1"] from [1,2,3] gives [1,3]; ["k"] from {"k":"v"}, {}.
C10_DeleteRemovesExactlyTheEntry ==
    last.op = "delete" =>
        /\ last.args.path = <<>> => ~last.ret
        /\ last.ret <=> Applies
        /\ last.ret =>
              LET old == Unwrap(pre.parsed_value)
                  path == last.args.path
                  parent_path == SubSeq(path, 1, Len(path) - 1)
                  parent == Unwrap(Lookup(old, parent_path))
                  p == ChildPos(parent, path[Len(path)])
              IN  parsed_value =
                      Some(Replaced(old, parent_path,
                                    [parent EXCEPT !.kids = Without(parent.kids, p)]))
        /\ (last.args.path = << Seg("1") >> /\ pre.text = DocArr) =>
              parsed_value = Some(JArray(<< Entry(<<>>, JInt(1)), Entry(<<>>, JInt(3)) >>))
        /\ (last.args.path = << Seg("k") >> /\ pre.text = DocK) =>
              parsed_value = Some(JObject(<<>>))

\* C10 witness: the first of two elements has been deleted from an array
\* inside an object; the second has moved down.
C10_Witness ==
    /\ last.op = "delete"
    /\ last.ret
    /\ pre.text = DocNested
    /\ last.args.path = << Seg("a"), Seg("b"), Seg("0") >>
    /\ Lookup(Unwrap(parsed_value), << Seg("a"), Seg("b"), Seg("0") >>) = Some(JNull)

\* C11: add puts the coerced value into the container the path addresses:
\* under the key of an Object (the key must not be empty; an existing value
\* of the key is overwritten, every other entry stays), or at the end of an
\* Array, whose length grows by one; it returns false for a primitive
\* container, an unresolved path or an empty object key.
C11_AddIntoContainer ==
    (last.op = "add" /\ IsSome(pre.parsed_value)) =>
        LET old == Unwrap(pre.parsed_value)
            path == last.args.path
            key == last.args.key
            c == Lookup(old, path)
            was == Unwrap(c)
            fits == /\ IsSome(c)
                    /\ \/ was.t = "array"
                       \/ was.t = "object" /\ key # <<>>
            new == Unwrap(parsed_value)
            now == Unwrap(Lookup(new, path))
            coerced == Coerce(last.args.str).v
        IN  /\ ~panicked
            /\ last.ret <=> fits
            /\ (last.ret /\ was.t = "object") =>
                  /\ now.t = "object"
                  /\ Lookup(now, << key >>) = Some(coerced)
                  /\ \A i \in 1..Len(was.kids) :
                        was.kids[i].k # key =>
                            Lookup(now, << was.kids[i].k >>) = Some(was.kids[i].v)
                  /\ Len(now.kids) =
                        Len(was.kids) + (IF ChildPos(was, key) = 0 THEN 1 ELSE 0)
                  /\ new = Replaced(old, path, now)
            /\ (last.ret /\ was.t = "array") =>
                  /\ now = JArray(Append(was.kids, Entry(<<>>, coerced)))
                  /\ Len(now.kids) = Len(was.kids) + 1
                  /\ new = Replaced(old, path, now)

\* C12: rename returns false when the path is not an Object's, when the old
\* key is absent, or when the new key exists and is another key; on success
\* the new key holds the value the old key had, the old key is gone (when the
\* two differ), the number of keys is the same and no other key's value
\* changed.
C12_RenameNeverOverwrites ==
    (last.op = "rename" /\ IsSome(pre.parsed_value)) =>
        LET old == Unwrap(pre.parsed_value)
            path == last.args.path
            old_key == last.args.key
            new_key == last.args.new_key
            c == Lookup(old, path)
            was == Unwrap(c)
            fits == /\ IsSome(c)
                    /\ was.t = "object"
                    /\ ChildPos(was, old_key) # 0
                    /\ ~(ChildPos(was, new_key) # 0 /\ new_key # old_key)
            new == Unwrap(parsed_value)
            now == Unwrap(Lookup(new, path))
        IN  /\ ~panicked
            /\ last.ret <=> fits
            /\ last.ret =>
                  /\ now.t = "object"
                  /\ Lookup(now, << new_key >>) = Lookup(was, << old_key >>)
                  /\ new_key # old_key => ChildPos(now, old_key) = 0
                  /\ Len(now.kids) = Len(was.kids)
                  /\ \A i \in 1..Len(was.kids) :
                        was.kids[i].k # old_key =>
                            Lookup(now, << was.kids[i].k >>) = Some(was.kids[i].v)
                  /\ new = Replaced(old, path, now)

\* C12 witness: a rename to a key the object already holds was rejected, in
\* an object where a rename to a fresh key goes through.
C12_Witness ==
    /\ last.op = "rename"
    /\ ~last.ret
    /\ last.args.path = <<>>
    /\ last.args.key = Seg("a")
    /\ last.args.new_key = Seg("k")
    /\ IsSome(pre.parsed_value)
    /\ ChildPos(Unwrap(pre.parsed_value), Seg("a")) # 0
    /\ ChildPos(Unwrap(pre.parsed_value), Seg("k")) # 0
    /\ rename_key_at_path(pre, <<>>, Seg("a"), Seg("b")).ret
    /\ Ed = pre

\* The keys of a container in the order it holds them, and the same without
\* the keys of a set.
KeySeq(v) == [i \in 1..Len(v.kids) |-> v.kids[i].k]

KeySeqWithout(v, named) == SelectSeq(KeySeq(v), LAMBDA k : k \notin named)

\* The container a successful mutation touched, and the keys it names.
TouchedPath ==
    IF last.op \in { "update", "delete" }
    THEN SubSeq(last.args.path, 1, Len(last.args.path) - 1)
    ELSE last.args.path

NamedKeys ==
    CASE last.op \in { "update", "delete" } -> { last.args.path[Len(last.args.path)] }
      [] last.op = "add" -> { last.args.key }
      [] OTHER -> { last.args.key, last.args.new_key }

\* C13: object keys stay in insertion order through every mutation: after a
\* successful update, add, delete or rename the keys the operation did not
\* name keep their relative order, a newly added key comes last, a deleted
\* key leaves the others as they were, and the regenerated text lists the
\* keys in that order.
C13_KeyOrderIsInsertionOrder ==
    (/\ last.op \in PathOpNames
     /\ last.ret
     /\ IsSome(pre.parsed_value)
     /\ ~(last.op \in { "update", "delete" } /\ last.args.path = <<>>)) =>
        LET was == Unwrap(Lookup(Unwrap(pre.parsed_value), TouchedPath))
            now == Unwrap(Lookup(Unwrap(parsed_value), TouchedPath))
        IN  was.t = "object" =>
              /\ now.t = "object"
              /\ KeySeqWithout(now, NamedKeys) = KeySeqWithout(was, NamedKeys)
              /\ (last.op = "add" /\ ChildPos(was, last.args.key) = 0) =>
                    KeySeq(now) = Append(KeySeq(was), last.args.key)
              /\ last.op = "delete" => KeySeq(now) = KeySeqWithout(was, NamedKeys)
              /\ text = to_string_pretty(Unwrap(parsed_value))

\* The value a text stands for by the stated precedence: quoted text, then a
\* number, then true / false in any letter case, then null in any letter
\* case, then the raw text.
IsQuoted(str) == Len(str) >= 1 /\ str[1] = QUOTE /\ str[Len(str)] = QUOTE

StatedValue(str) ==
    IF IsQuoted(str) THEN JString(SubSeq(str, 2, Len(str) - 1))
    ELSE IF ParseF64(str).ok THEN ParseF64(str).v
    ELSE IF LowerStr(str) = LitTrue THEN JBool(TRUE)
    ELSE IF LowerStr(str) = LitFalse THEN JBool(FALSE)
    ELSE IF LowerStr(str) = LitNull THEN JNull
    ELSE JString(str)

\* The value an update or add stored: at the path for update, under the key
\* or at the end of the container for add.
StoredValue ==
    LET new == Unwrap(parsed_value)
        c == Unwrap(Lookup(new, last.args.path))
    IN  IF last.op = "update" THEN c
        ELSE IF c.t = "object" THEN Unwrap(Lookup(c, << last.args.key >>))
        ELSE c.kids[Len(c.kids)].v

\* Update or add has somewhere to store: the path resolves, and for add to
\* a container that takes the key.
HasTarget ==
    LET c == Lookup(Unwrap(pre.parsed_value), last.args.path) IN
    /\ IsSome(c)
    /\ last.op = "add" =>
          \/ Unwrap(c).t = "array"
          \/ Unwrap(c).t = "object" /\ last.args.key # <<>>

\* C14: update and add coerce the value text by one precedence: quoted text
\* is a String of the inner text; else text that parses as a number is a
\* Number; else true / false ignoring letter case is a Boolean; else null
\* ignoring letter case is Null; else a String of the raw text.
C14_CoercionPrecedence ==
    (last.op \in { "update", "add" } /\ IsSome(pre.parsed_value) /\ HasTarget) =>
        /\ ~panicked
        /\ last.ret
        /\ ParseF64(last.args.str).ok /\ ~IsQuoted(last.args.str) =>
              StoredValue.t = "number"
        /\ StoredValue = StatedValue(last.args.str)

\* The cell the edit dialog was open on, and the path of its value.
EditedCell == Unwrap(pre_graph.editing_cell)

EditedPath ==
    Append(pre_graph.nodes[NodeIndex(pre_graph, EditedCell.node_id)].json_path,
           EditedCell.key)

\* C15: displaying a primitive and coercing it back is the identity: after
\* the edit dialog of a String, Number, Boolean or Null cell is saved with
\* the text it opened with, the value at the path of the cell equals what it
\* was.
C15_DisplayCoerceRoundTrip ==
    (last.op = "save_edit" /\ IsSome(pre_graph.editing_cell)) =>
        /\ ~panicked
        /\ IsSome(parsed_value)
        /\ Lookup(Unwrap(parsed_value), EditedPath) =
              Lookup(Unwrap(pre.parsed_value), EditedPath)

\* The value the last build_from_json was called with.
BuiltFrom == (CHOOSE in \in BuildInputs : in.t = last.args.str).value

IsContainer(v) == v.t \in { "object", "array" }

\* C16: for every value passed to build_from_json, a top-level String,
\* Number or Boolean included, every node of the graph is an Object or an
\* Array: a primitive is never a node of its own, it is only a row of its
\* parent that is not a reference ({"u":{"n":"a"}} gives 2 nodes, 1 edge).
C16_NodesAreContainers ==
    (last.op = "build_from_json" /\ ~panicked) =>
        /\ \A n \in 1..Len(graph.nodes) :
              /\ graph.nodes[n].node_type \in { "Object", "Array" }
              /\ graph.nodes[n].content.kind \in { "Object", "Array" }
              /\ \A r \in 1..Len(RowsOf(graph.nodes[n])) :
                    RowsOf(graph.nodes[n])[r].is_reference <=>
                        RowsOf(graph.nodes[n])[r].value_type \in { "Object", "Array" }
        /\ last.args.str = DocUser => Len(graph.nodes) = 2 /\ Len(graph.edges) = 1

\* The edges into and out of a node, and the rows of a node that refer to
\* a child node.
EdgesInto(id) == { e \in 1..Len(graph.edges) : graph.edges[e].to = id }

EdgesFrom(id) == { e \in 1..Len(graph.edges) : graph.edges[e].from = id }

ReferenceRows(node) == { r \in 1..Len(RowsOf(node)) : RowsOf(node)[r].is_reference }

\* The edge into a node comes from the node one segment up and is labelled
\* with that segment: the key under an Object, [index] under an Array.
IsParentEdge(edge, node) ==
    LET up == SubSeq(node.json_path, 1, Len(node.json_path) - 1)
        seg == node.json_path[Len(node.json_path)]
    IN  \E p \in 1..Len(graph.nodes) :
            /\ graph.nodes[p].json_path = up
            /\ edge.from = graph.nodes[p].id
            /\ edge.label = Some(IF graph.nodes[p].node_type = "Object" THEN seg
                                 ELSE << "[" >> \o seg \o << "]" >>)

\* C17: after build_from_json there is exactly one edge into every node
\* but the root and none into the root (edges = nodes - 1 in a graph that is
\* not empty); the edge comes from the node whose path is the child's path
\* without its last segment and is labelled with the key or [index] of that
\* segment; a node has as many outgoing edges as rows marked is_reference.
C17_OneEdgePerChild ==
    (last.op = "build_from_json" /\ ~panicked /\ graph.nodes # <<>>) =>
        /\ Len(graph.edges) = Len(graph.nodes) - 1
        /\ \A n \in 1..Len(graph.nodes) :
              LET node == graph.nodes[n] IN
              /\ node.json_path = <<>> => EdgesInto(node.id) = {}
              /\ node.json_path # <<>> =>
                    /\ Cardinality(EdgesInto(node.id)) = 1
                    /\ \A e \in EdgesInto(node.id) : IsParentEdge(graph.edges[e], node)
              /\ Cardinality(EdgesFrom(node.id)) = Cardinality(ReferenceRows(node))

C17_Witness ==
    /\ last.op = "build_from_json"
    /\ ~panicked
    /\ last.args.str = DocDeep
    /\ Len(graph.edges) = 5
    /\ \E e \in 1..5 :
          graph.edges[e].from = 1 /\ graph.edges[e].label = Some(<< "[", "1", "]" >>)

\* The value a node's path navigates to in a document, if it navigates.
Navigates(value, path) == navigate_to_path_mut(value, path).ok

Reached(value, path) == Deref(value, navigate_to_path_mut(value, path).loc)

\* C18: for every node of the graph built from a value, navigating the value
\* along the node's json_path succeeds and reaches a value of the node's
\* kind; also in the graph rebuilt after a successful delete of an array
\* element, which renumbers the paths of the later siblings.
C18_NodePathsNavigate ==
    (~panicked /\ IsSome(parsed_value)) =>
        \A n \in 1..Len(graph.nodes) :
            /\ Navigates(Unwrap(parsed_value), graph.nodes[n].json_path)
            /\ NodeTypeOf(Reached(Unwrap(parsed_value), graph.nodes[n].json_path)) =
                  graph.nodes[n].node_type

C18_Witness ==
    /\ last.op = "delete_row"
    /\ last.ret
    /\ ~panicked
    /\ pre.text = DocDeep
    /\ last.args.path = << << "0" >> >>
    /\ Len(graph.nodes) = 3
    /\ graph.nodes[2].json_path = << << "0" >> >>
    /\ pre_graph.nodes[5].json_path = << << "1" >> >>
    /\ graph.nodes[2].content = pre_graph.nodes[5].content

\* The paths of the containers of a value in depth-first pre-order (the
\* value itself first, whatever it is).
RECURSIVE PreOrderPaths(_, _)
RECURSIVE PreOrderFrom(_, _, _)
PreOrderFrom(v, path, i) ==
    IF i > Len(v.kids) THEN <<>>
    ELSE IF IsContainer(v.kids[i].v)
    THEN PreOrderPaths(v.kids[i].v,
                       Append(path, IF v.t = "object" THEN v.kids[i].k
                                    ELSE DigitsOf(i - 1)))
         \o PreOrderFrom(v, path, i + 1)
    ELSE PreOrderFrom(v, path, i + 1)

PreOrderPaths(v, path) ==
    << path >> \o (IF IsContainer(v) THEN PreOrderFrom(v, path, 1) ELSE <<>>)

\* C19: layout is deterministic and idempotent: build_from_json of a value
\* yields the node list and edge list that it yields on a new graph,
\* whatever the graph held before, and the ids are 0, 1, 2, ... in
\* depth-first pre-order.
C19_BuildIsDeterministic ==
    (last.op = "build_from_json" /\ ~panicked) =>
        /\ graph.nodes = build_from_json(new_graph, BuiltFrom).g.nodes
        /\ graph.edges = build_from_json(new_graph, BuiltFrom).g.edges
        /\ \A n \in 1..Len(graph.nodes) : graph.nodes[n].id = n - 1
        /\ [n \in 1..Len(graph.nodes) |-> graph.nodes[n].json_path] =
              IF BuiltFrom.t = "null" THEN <<>> ELSE PreOrderPaths(BuiltFrom, <<>>)

C19_Witness ==
    /\ last.op = "build_from_json"
    /\ ~panicked
    /\ last.args.str = DocDeep
    /\ Len(graph.nodes) = 6
    /\ pre_graph.next_id > 0
    /\ pre_graph.nodes # graph.nodes
    /\ IsSome(pre_graph.editing_cell)

\* The distance of two x positions.
Apart(a, b) == IF a >= b THEN a - b ELSE b - a

\* C20: in every graph produced by build_from_json, the y of a node is
\* 50 + 200 * (length of its path), and two distinct nodes of the same depth
\* do not overlap horizontally: their x differ by at least the base width
\* 300 of a leaf, which is more than the node width 250.
C20_LayoutByDepth ==
    (last.op = "build_from_json" /\ ~panicked) =>
        /\ \A n \in 1..Len(graph.nodes) :
              /\ graph.nodes[n].position.y = 50 + 200 * Len(graph.nodes[n].json_path)
              /\ graph.nodes[n].size.x <= 250
        /\ \A n, m \in 1..Len(graph.nodes) :
              (n # m /\ Len(graph.nodes[n].json_path) = Len(graph.nodes[m].json_path)) =>
                  Apart(graph.nodes[n].position.x, graph.nodes[m].position.x) >= 300

C20_Witness ==
    /\ last.op = "build_from_json"
    /\ ~panicked
    /\ last.args.str = DocDeep
    /\ \E n, m \in 1..Len(graph.nodes) :
          /\ n # m
          /\ Len(graph.nodes[n].json_path) = 2
          /\ Len(graph.nodes[m].json_path) = 2
          /\ graph.nodes[n].json_path[1] # graph.nodes[m].json_path[1]
          /\ graph.nodes[n].position.y = 450
          /\ Apart(graph.nodes[n].position.x, graph.nodes[m].position.x) = 300

\* The number of leading segments two paths share.
CommonRun(a, b) ==
    CHOOSE k \in 0..Min(Len(a), Len(b)) :
        /\ \A i \in 1..k : a[i] = b[i]
        /\ k < Min(Len(a), Len(b)) => a[k + 1] # b[k + 1]

\* The nodes select_by_path had to choose from, and its target.
Candidates == pre_graph.nodes

Target == last.args.path

LongestRun ==
    CHOOSE k \in 0..Len(Target) :
        /\ \A n \in 1..Len(Candidates) : CommonRun(Candidates[n].json_path, Target) <= k
        /\ k > 0 => \E n \in 1..Len(Candidates) :
                        CommonRun(Candidates[n].json_path, Target) = k

FirstWith(P(_)) == CHOOSE n \in 1..Len(Candidates) : P(n) /\ \A m \in 1..(n - 1) : ~P(m)

\* C21: select_by_path(path) selects the node whose path equals path if there
\* is one; otherwise the first node, in node-list order, among those that
\* share the longest run of leading segments with path, if that run is
\* longer than zero; if no node shares a first segment it returns false and
\* the selection stays as it was.
C21_SelectByPath ==
    last.op = "select_by_path" =>
        LET exact(n) == Candidates[n].json_path = Target
            closest(n) == CommonRun(Candidates[n].json_path, Target) = LongestRun
        IN  /\ graph = [pre_graph EXCEPT !.selected_node = graph.selected_node]
            /\ IF \E n \in 1..Len(Candidates) : exact(n)
               THEN last.ret /\ graph.selected_node = Some(Candidates[FirstWith(exact)].id)
               ELSE IF LongestRun > 0
               THEN last.ret /\ graph.selected_node = Some(Candidates[FirstWith(closest)].id)
               ELSE ~last.ret /\ graph.selected_node = pre_graph.selected_node

\* Nodes [], [a], [a,b], [a,b,c], [a,b,k] and the target [a,b,x]: [a,b].
C21_Witness ==
    /\ last.op = "select_by_path"
    /\ last.ret
    /\ Target = << Seg("a"), Seg("b"), Seg("x") >>
    /\ Len(graph.nodes) = 5
    /\ graph.selected_node = Some(2)
    /\ graph.nodes[3].json_path = << Seg("a"), Seg("b") >>
    /\ graph.nodes[3].id = 2
    /\ pre_graph.selected_node # graph.selected_node

\* The dialogs of the graph that are open.
OpenDialogs(g) ==
    { d \in { "editing_cell", "adding_state", "renaming_key" } : IsSome(g[d]) }

OpensDialog(op) ==
    op \in { "click_edit_cell", "click_add_row", "click_rename_key",
             "menu_edit_value", "menu_rename_key", "menu_add" }

DialogOf(op) ==
    CASE op \in { "click_edit_cell", "menu_edit_value" } -> "editing_cell"
      [] op \in { "click_add_row", "menu_add" } -> "adding_state"
      [] OTHER -> "renaming_key"

\* C22: at most one of editing_cell, adding_state and renaming_key is Some
\* in every reachable state, and a frame that opens a dialog (a click on a
\* cell, a key or the add button, or an entry of the context menu) leaves
\* no other dialog open.
C22_OneDialogAtATime ==
    /\ Cardinality(OpenDialogs(graph)) <= 1
    /\ (OpensDialog(last.op) /\ ~panicked) =>
          OpenDialogs(graph) \subseteq { DialogOf(last.op) }

\* C23: when a change of the text leaves it not JSON, the document is
\* invalid with an error message, and the value parsed before and the
\* graph built from it stay: parsed_value is still the previous value and
\* the nodes and edges of the graph are unchanged.
C23_InvalidTextKeepsValueAndGraph ==
    (last.op = "text_changed" /\ ~panicked /\ IsSome(pre.parsed_value)
        /\ ~IsSome(Parse(text))) =>
        /\ IsSome(error_message)
        /\ parsed_value = pre.parsed_value
        /\ graph.nodes = pre_graph.nodes
        /\ graph.edges = pre_graph.edges

\* The text the formatter named op is to produce for a value.
Formatted(op, v) ==
    IF op = "apply_pretty_print" THEN to_string_pretty(v) ELSE to_string(v)

\* C24: for a valid document, apply_pretty_print and apply_compact, in any
\* order and any number of times, leave the parsed value as it is; the text
\* each produces parses back to that value, the keys of every Object in the
\* same order (values are equal only with equal key order); and the text
\* is the formatted parsed value alone, whatever the text was before.
C24_FormatKeepsValue ==
    (last.op \in { "apply_pretty_print", "apply_compact" } /\ IsSome(pre.parsed_value)) =>
        /\ parsed_value = pre.parsed_value
        /\ Parse(text) = pre.parsed_value
        /\ text = Formatted(last.op, Unwrap(pre.parsed_value))

\* apply_compact came to a document written with its keys out of order,
\* with white space or with padded numbers, and changed its text.
C24_Witness ==
    /\ last.op = "apply_compact"
    /\ pre.text \in { DocUnsorted, DocSpaced, DocNumbers, to_string_pretty(ValCells) }
    /\ text # pre.text
    /\ Parse(text) = Parse(pre.text)

\* The lines of a text, by the places of its line feeds.
Feeds(t) == { i \in 1..Len(t) : t[i] = NL }

LineCount(t) ==
    Cardinality(Feeds(t)) + (IF t # <<>> /\ t[Len(t)] # NL THEN 1 ELSE 0)

NthFeed(t, n) == CHOOSE i \in Feeds(t) : Cardinality({ j \in Feeds(t) : j <= i }) = n

LineText(t, l) ==
    SubSeq(t, IF l = 1 THEN 1 ELSE NthFeed(t, l - 1) + 1,
              IF l <= Cardinality(Feeds(t)) THEN NthFeed(t, l) - 1 ELSE Len(t))

\* The line holds the segment between two double quotes.
HasQuoted(line, seg) ==
    \E i \in 1..Len(line) :
        /\ i + Len(seg) + 1 <= Len(line)
        /\ line[i] = QUOTE
        /\ SubSeq(line, i + 1, i + Len(seg)) = seg
        /\ line[i + Len(seg) + 1] = QUOTE

\* The first line from line `from` on that holds the segment, or 0.
FirstLineWith(t, seg, from) ==
    IF \E l \in from..LineCount(t) : HasQuoted(LineText(t, l), seg)
    THEN CHOOSE l \in from..LineCount(t) :
            /\ HasQuoted(LineText(t, l), seg)
            /\ \A m \in from..(l - 1) : ~HasQuoted(LineText(t, m), seg)
    ELSE 0

\* The line of the last segment matched when the segments from the i-th on
\* are matched in order, each on a line after the match before it; matched
\* is the line of the match before (0: none yet).
RECURSIVE LastMatched(_, _, _, _)
NextMatched(t, path, i, matched, m) ==
    IF m = 0 THEN matched ELSE LastMatched(t, path, i + 1, m)

LastMatched(t, path, i, matched) ==
    IF i > Len(path) THEN matched
    ELSE NextMatched(t, path, i, matched, FirstLineWith(t, path[i], matched + 1))

LineAsClaimed(t, path) ==
    IF path = <<>> THEN Some(1)
    ELSE IF LastMatched(t, path, 1, 0) = 0 THEN None
    ELSE Some(LastMatched(t, path, 1, 0))

\* C25 as stated: find_line_for_path returns Some(1) for the empty path;
\* for another path the segments are matched in order against the lines,
\* top to bottom, a line matching when it holds the pending segment between
\* double quotes and taking one segment at most; the result is the line of
\* the last segment when all matched, else the last matched line, else
\* None; and every line returned lies between 1 and the number of lines of
\* the text.
C25_FindLineAsStated ==
    last.op = "find_line_for_path" =>
        /\ last.ret = LineAsClaimed(text, last.args.path)
        /\ IsSome(last.ret) =>
              Unwrap(last.ret) >= 1 /\ Unwrap(last.ret) <= LineCount(text)

\* C25, amended: the same, the bound on the returned line holding except
\* for the empty path on a text of no lines, which gives line 1 as well.
C25_FindLineForPath ==
    last.op = "find_line_for_path" =>
        /\ last.ret = LineAsClaimed(text, last.args.path)
        /\ (IsSome(last.ret) /\ ~(last.args.path = <<>> /\ LineCount(text) = 0)) =>
              Unwrap(last.ret) >= 1 /\ Unwrap(last.ret) <= LineCount(text)
        /\ (last.args.path = <<>> /\ LineCount(text) = 0) => last.ret = Some(1)

\* A path of three segments of which two were found, the second on a line
\* after the first, in a text of several lines.
C25_Witness ==
    /\ last.op = "find_line_for_path"
    /\ Len(last.args.path) = 3
    /\ LineCount(text) > 3
    /\ IsSome(last.ret)
    /\ Unwrap(last.ret) > FirstLineWith(text, last.args.path[1], 1)
    /\ FirstLineWith(text, last.args.path[3], Unwrap(last.ret) + 1) = 0

\* The text does not pass the validation of its type.
FailsTyped(str, value_type) ==
    CASE value_type = "Number" -> ~ParseF64(str).ok
      [] value_type = "Boolean" -> LowerStr(str) \notin { LitTrue, LitFalse }
      [] value_type = "Null" -> LowerStr(str) # LitNull
      [] OTHER -> FALSE

\* The frame was a Save or an Add on a dialog whose text fails its type.
SavedInvalid ==
    \/ /\ last.op = "save_edit"
       /\ IsSome(pre_graph.editing_cell)
       /\ FailsTyped(Unwrap(pre_graph.editing_cell).text,
                     Unwrap(pre_graph.editing_cell).value_type)
    \/ /\ last.op = "save_add"
       /\ IsSome(pre_graph.adding_state)
       /\ FailsTyped(Unwrap(pre_graph.adding_state).value,
                     Unwrap(pre_graph.adding_state).value_type)

\* C26: a Save in the edit dialog or an Add in the add dialog whose text
\* fails the validation of its type (a Number that is no number, a Boolean
\* other than true/false, a Null other than null) produces no pending edit:
\* nothing is dispatched, the text, the parsed value and the history of the
\* document are as before, and the dialog is still open with the text as
\* it was entered.
C26_InvalidSaveKeepsDialog ==
    (SavedInvalid /\ ~panicked) =>
        /\ last.ret = FALSE
        /\ text = pre.text
        /\ parsed_value = pre.parsed_value
        /\ undo_stack = pre.undo_stack
        /\ redo_stack = pre.redo_stack
        /\ graph.pending_edit = None
        /\ graph.editing_cell = pre_graph.editing_cell
        /\ graph.adding_state = pre_graph.adding_state
        /\ graph.nodes = pre_graph.nodes

\* Add was pressed with a property name and a value that is no number for
\* the type Number.
C26_Witness ==
    /\ last.op = "save_add"
    /\ IsSome(graph.adding_state)
    /\ Unwrap(graph.adding_state).key # <<>>
    /\ Unwrap(graph.adding_state).value_type = "Number"
    /\ Unwrap(graph.adding_state).value = Seg("y")
    /\ SavedInvalid

\* The frames in which the graph reports a change of selection, and so may
\* ask the editor to scroll.
MayRequestScroll(op) == op \in { "click_node", "delete_row" }

\* C27: the one-shot signals are delivered once.  Between frames a take of
\* the pending edit or of the clicked line returns None: what a frame
\* recorded, the same frame took.  A scroll request is cleared by the
\* frame that reads it (a frame that renders the text editor): after such
\* a frame there is no request unless the frame itself made one, and then
\* it is the request for the line of the node now selected.
C27_OneShotSignals ==
    /\ take_pending_edit(graph).ret = None
    /\ take_clicked_line(Ed).ret = None
    /\ (view_mode = "Text" /\ ~MayRequestScroll(last.op)) => target_line = None
    /\ (view_mode = "Text" /\ MayRequestScroll(last.op) /\ IsSome(target_line)) =>
          /\ IsSome(get_selected_path(graph))
          /\ target_line = find_line_for_path(Ed, Unwrap(get_selected_path(graph)))

\* A frame with no event read a scroll request that an earlier frame had
\* left, and cleared it.
C27_Witness ==
    /\ last.op = "frame"
    /\ IsSome(pre.target_line)
    /\ Unwrap(pre.target_line) > 1
    /\ target_line = None

\* C28: for every value text that starts and ends with a double quote, the
\* text of one double quote included, update and add on a path that
\* resolves do not panic, and where they have somewhere to store they store
\* the String of the text between the first and the last character.
C28_QuotedTextStoresInner ==
    (/\ last.op \in { "update", "add" }
     /\ IsSome(pre.parsed_value)
     /\ IsQuoted(last.args.str)
     /\ IsSome(Lookup(Unwrap(pre.parsed_value), last.args.path))) =>
        /\ ~panicked
        /\ HasTarget =>
              /\ last.ret
              /\ StoredValue =
                    JString(SubSeq(last.args.str, 2, Len(last.args.str) - 1))

\* C29: previous_text equals text after every completed operation, so the
\* snapshot a keystroke pushes is the text that was current just before
\* it: an undo right after a keystroke that changed the text succeeds and
\* restores the text from before the keystroke, also after a set_text.
C29_SnapshotIsTextBeforeKeystroke ==
    ~panicked =>
        /\ previous_text = text
        /\ (last.op = "text_changed" /\ text # pre.text) =>
              /\ undo(Ed).ret
              /\ undo(Ed).e.text = pre.text

\* The frames that called build_from_json: the first frame, a change of the
\* text, and the dispatch of a pending edit that succeeded.
CalledBuild ==
    \/ last.op \in { "first_frame", "text_changed" }
    \/ /\ last.op \in { "save_edit", "save_add", "save_rename", "delete_row",
                        "menu_delete" }
       /\ last.ret
       /\ IsSome(parsed_value)

\* The value it was called with: the parsed value, Null for invalid text.
BuiltValue == IF IsSome(parsed_value) THEN Unwrap(parsed_value) ELSE JNull

\* C30: every build_from_json is a full rebuild: the node and edge lists
\* hold what the new value generates and nothing else (nothing for a
\* top-level Null), the ids start again at 0, and the selection, the edit,
\* add and rename dialogs, the context menu and the pending edit are
\* cleared, whatever the graph held before the call.
C30_BuildIsFullRebuild ==
    (CalledBuild /\ ~panicked) =>
        /\ graph.nodes = build_from_json(new_graph, BuiltValue).g.nodes
        /\ graph.edges = build_from_json(new_graph, BuiltValue).g.edges
        /\ BuiltValue.t = "null" => graph.nodes = <<>> /\ graph.edges = <<>>
        /\ graph.next_id = Len(graph.nodes)
        /\ \A n \in 1..Len(graph.nodes) : graph.nodes[n].id = n - 1
        /\ graph.selected_node = None
        /\ graph.editing_cell = None
        /\ graph.adding_state = None
        /\ graph.renaming_key = None
        /\ graph.context_menu = None
        /\ graph.pending_edit = None

\* A rebuild of a graph that had a dialog and the context menu open, or a
\* selection, and of which the built value is not the old one.
C30_Witness ==
    /\ CalledBuild
    /\ ~panicked
    /\ last.op = "save_add"
    /\ IsSome(pre_graph.adding_state)
    /\ IsSome(pre_graph.editing_cell) \/ IsSome(pre_graph.context_menu)
    /\ graph.nodes # pre_graph.nodes
    /\ graph.nodes # <<>>

====
